---- MODULE Spec2Model ----
(***************************************************************************)
(* Reconciliation engine of the Jira <-> Freshdesk synchroniser.           *)
(*                                                                         *)
(* The model follows src/sync-project/src/services/sync_service.py and     *)
(* src/sync-project/src/orchestrator.py.  One client is modelled; a run of *)
(* process_client is a sequence of steps, one per loop iteration of the    *)
(* three phases, with the two external systems and the two persisted files *)
(* as state.  Time is a counter of ticks; several events may carry the     *)
(* same tick (the granularity of the timestamps).  Texts are sequences of  *)
(* tokens: characters for titles and descriptions, words for comments,     *)
(* with the bot tag as one token.                                          *)
(***************************************************************************)
EXTENDS Integers, Sequences, FiniteSets, TLC

\* ------------------------------------------------------------- bounds
MaxTime == 2
MaxRuns == 2
MaxJira == 2
MaxFaults == 1
MaxUserEvents == 2
TicksPerDay == 2

\* ------------------------------------------------- program constants
SYNC_DAYS_AGO == 1
MAPPING_LOOKBACK_DAYS == 30
DescFloor == 20
NoTime == -1
NoTicket == 0

TAG == "[SyncBot]"
NL == "\n"
Outcomes == {"ok", "none", "raise"}

\* ------------------------------------------------------ generic helpers
Max(a, b) == IF a >= b THEN a ELSE b

RECURSIVE Flatten(_)
Flatten(ss) == IF ss = <<>> THEN <<>> ELSE Head(ss) \o Flatten(Tail(ss))

RECURSIVE Filter(_, _)
Filter(s, keep) ==
    IF s = <<>> THEN <<>>
    ELSE (IF Head(s) \in keep THEN <<Head(s)>> ELSE <<>>) \o Filter(Tail(s), keep)

\* Python: tag in text
Contains(text, tok) == \E i \in DOMAIN text : text[i] = tok

WhiteSpace == {" ", NL}

RECURSIVE LStrip(_)
LStrip(s) == IF s # <<>> /\ Head(s) \in WhiteSpace THEN LStrip(Tail(s)) ELSE s

RECURSIVE RStrip(_)
RStrip(s) ==
    IF s # <<>> /\ s[Len(s)] \in WhiteSpace THEN RStrip(SubSeq(s, 1, Len(s) - 1)) ELSE s

\* Python: str.strip()
Strip(s) == RStrip(LStrip(s))

\* ------------------------------------------------------------ date_utils
\* strftime('%Y-%m-%d'): the first tick of the day of t
DayStart(t) == (t \div TicksPerDay) * TicksPerDay

\* (now - timedelta(days=d)).strftime('%Y-%m-%d'); no ticket is older than tick 0
SinceDate(t, days) == DayStart(Max(0, t - days * TicksPerDay))

\* ------------------------------------------------------------ text_utils
UpperCase == {"L", "F", "A"}
LowerOf(c) == CASE c = "L" -> "l" [] c = "F" -> "f" [] c = "A" -> "a" [] OTHER -> c
WordChars == {"l", "o", "g", "f", "a", "x", "z", "b"} \cup UpperCase

\* re.sub(r'<[^>]*>', '', html): drop every <...> span that is closed
RECURSIVE SkipToClose(_)
SkipToClose(s) ==
    IF s = <<>> THEN <<>> ELSE IF Head(s) = ">" THEN Tail(s) ELSE SkipToClose(Tail(s))

RECURSIVE strip_html_tags(_)
strip_html_tags(s) ==
    IF s = <<>> THEN <<>>
    ELSE IF Head(s) = "<" /\ Contains(Tail(s), ">")
         THEN strip_html_tags(SkipToClose(Tail(s)))
         ELSE <<Head(s)>> \o strip_html_tags(Tail(s))

\* re.sub(r'\s+', ' ', s)
RECURSIVE CollapseSpaces(_)
CollapseSpaces(s) ==
    IF s = <<>> THEN <<>>
    ELSE IF Head(s) \in WhiteSpace
         THEN <<" ">> \o CollapseSpaces(LStrip(Tail(s)))
         ELSE <<Head(s)>> \o CollapseSpaces(Tail(s))

ToLower(s) == [i \in DOMAIN s |-> LowerOf(s[i])]

normalize_text(text) ==
    IF text = <<>> THEN <<>>
    ELSE LET text_no_punct == Filter(text, WordChars \cup WhiteSpace)
         IN  ToLower(Strip(CollapseSpaces(text_no_punct)))

\* re.sub(r'\n{2,}', '\n\n', s)
RECURSIVE CollapseNewlines(_, _)
CollapseNewlines(s, run) ==
    IF s = <<>> THEN <<>>
    ELSE IF Head(s) = NL
         THEN (IF run >= 2 THEN <<>> ELSE <<NL>>) \o CollapseNewlines(Tail(s), run + 1)
         ELSE <<Head(s)>> \o CollapseNewlines(Tail(s), 0)

BlockNodes == {"paragraph", "heading", "blockquote", "listItem"}

RECURSIVE parse_adf_nodes(_)
parse_adf_nodes(nodes) ==
    IF nodes = <<>> THEN <<>>
    ELSE LET node == Head(nodes)
             own == IF node.type = "text" THEN node.text
                    ELSE IF node.type = "hardBreak" THEN <<NL>> ELSE <<>>
             kids == IF "content" \in DOMAIN node /\ node.content # <<>>
                     THEN parse_adf_nodes(node.content)
                          \o (IF node.type \in BlockNodes THEN <<NL>> ELSE <<>>)
                     ELSE <<>>
         IN  own \o kids \o parse_adf_nodes(Tail(nodes))

NoAdf == [type |-> "none"]

extract_text_from_adf(adf_content) ==
    IF adf_content = NoAdf THEN <<>>
    ELSE Strip(CollapseNewlines(parse_adf_nodes(adf_content.content), 0))

\* ----------------------------------------------------------- jira_service
TextNode(t) == [type |-> "text", text |-> t]
Paragraph(parts) == [type |-> "paragraph", content |-> parts]
\* the body add_comment posts: one paragraph holding one text node
CommentDoc(t) == [type |-> "doc", content |-> <<Paragraph(<<TextNode(t)>>)>>]

RECURSIVE JoinLines(_)
JoinLines(ps) ==
    IF ps = <<>> THEN <<>>
    ELSE IF Len(ps) = 1 THEN Head(ps) ELSE Head(ps) \o <<NL>> \o JoinLines(Tail(ps))

RECURSIVE ParagraphTexts(_)
ParagraphTexts(items) ==
    IF items = <<>> THEN <<>>
    ELSE (IF Head(items).type = "paragraph"
          THEN <<Flatten([i \in DOMAIN Head(items).content |->
                            IF "text" \in DOMAIN Head(items).content[i]
                            THEN Head(items).content[i].text ELSE <<>>])>>
          ELSE <<>>) \o ParagraphTexts(Tail(items))

extract_description(jira_ticket) ==
    IF jira_ticket.description = NoAdf THEN <<>>
    ELSE Strip(JoinLines(ParagraphTexts(jira_ticket.description.content)))

JIRA_PRIORITY_TO_FRESHDESK ==
    [n \in {"Lowest", "Low", "Baixa", "Medium", "Média", "High", "Alta",
            "Highest", "Mais alta", "Urgente"} |->
        CASE n \in {"Lowest", "Low", "Baixa"} -> 1
          [] n \in {"Medium", "Média"} -> 2
          [] n \in {"High", "Alta"} -> 3
          [] OTHER -> 4]

JIRA_STATUS_TO_FRESHDESK ==
    [n \in {"Backlog", "Tarefas Pendentes", "To Do", "A Fazer", "In Progress",
            "Em andamento", "Em Análise", "Done", "Concluído", "Resolvido",
            "Feito", "Closed", "Fechado"} |->
        CASE n \in {"Backlog", "Tarefas Pendentes", "To Do", "A Fazer"} -> 2
          [] n \in {"In Progress", "Em andamento", "Em Análise"} -> 3
          [] n \in {"Done", "Concluído", "Resolvido", "Feito"} -> 4
          [] OTHER -> 5]

\* the table's spelling of a name written in another letter case
CanonicalName(n) ==
    CASE n \in {"high", "HIGH"} -> "High"
      [] n \in {"highest", "HIGHEST"} -> "Highest"
      [] n \in {"backlog", "BACKLOG"} -> "Backlog"
      [] n \in {"done", "DONE"} -> "Done"
      [] n \in {"to do", "TO DO"} -> "To Do"
      [] OTHER -> n

\* a lookup that ignores the letter case of the name
DictGetIgnoringCase(d, k, default) ==
    IF CanonicalName(k) \in DOMAIN d THEN d[CanonicalName(k)] ELSE default

\* a lookup that drops the default
DictGetNoDefault(d, k, default) == IF k \in DOMAIN d THEN d[k] ELSE 0

\* dict.get(name, default)
DictGet(d, k, default) == IF k \in DOMAIN d THEN d[k] ELSE default

\* ------------------------------------------------------------- universe
\* Titles and descriptions the tickets of the two systems are drawn from.
Title1 == <<"L", "o", "g">>
Title2 == <<"x">>
FdSubject1 == <<"l", "o", "g", "!">>
FdSubject2 == <<"z">>
FdSubject3 == <<" ", "L", "o", "g", ".">>
LongText == [i \in 1..(DescFloor + 1) |-> "a"]
LongDoc == [type |-> "doc", content |-> <<Paragraph(<<TextNode(LongText)>>)>>]
FdLongDesc == <<"<", "b", ">", "A">> \o [i \in 1..DescFloor |-> "a"] \o <<"!">>
\* descriptions of more than DescFloor characters that normalize to exactly
\* DescFloor characters
ShortDoc == [type |-> "doc",
             content |-> <<Paragraph(<<TextNode([i \in 1..DescFloor |-> "a"] \o <<".">>)>>)>>]
FdShortDesc == <<"<", "b", ">", "A">> \o [i \in 1..(DescFloor - 1) |-> "a"] \o <<"!">>

JiraShapes ==
    { [summary |-> Title1, description |-> ShortDoc, priority |-> "Highest", status |-> "Backlog"],
      [summary |-> Title2, description |-> LongDoc, priority |-> "high", status |-> "Aberto"] }

FdTicket(subject, desc) ==
    [subject |-> subject, description_text |-> desc, status |-> 2, priority |-> 1,
     updated_at |-> 0, tag |-> NoTicket, conversations |-> <<>>]

\* status codes of the first helpdesk ticket: 3 has candidate transitions,
\* none of which the workflow exposes; 8 (a custom status) has no list
FdStatuses == {3, 8}

\* the helpdesk is empty, or holds two tickets: one of another title with a
\* description at the floor, or one whose subject normalizes to the same
\* title, with the same long description
FdInits == { <<>> } \cup
           { <<[FdTicket(FdSubject1, FdLongDesc) EXCEPT !.status = st],
               IF st = 3 THEN FdTicket(FdSubject2, FdShortDesc)
                         ELSE FdTicket(FdSubject3, FdLongDesc)>> :
             st \in FdStatuses }

\* what a user types into a comment or a reply
UserTexts == { <<"ola">>, <<TAG, " ", "eco">> }
\* the replies and notes an agent writes
AgentEntries == { [text |-> <<"ola">>, private |-> FALSE],
                  [text |-> <<"nota">>, private |-> TRUE],
                  [text |-> <<TAG, " ", "eco">>, private |-> TRUE] }

MaxComments == 2
MaxConvs == 2

\* ---------------------------------------------------------------- state
VARIABLES
    now,                \* the clock (datetime.now)
    jira,               \* source tracker: issues by key 1..Len(jira)
    nextCommentId,      \* source tracker: next comment id
    fd,                 \* target helpdesk: tickets by id 1..Len(fd)
    configFile,         \* config.json of the client
    mappingFile,        \* mapping.json of the client
    config,             \* process_client: the in-memory config of the run
    mapping,            \* config['mapping_data']
    pc,                 \* position of process_client
    idx,                \* position of the current loop
    jira_tickets,       \* run_sync_for_client: fetched source issues
    freshdesk_tickets,  \* run_sync_for_client: fetched target tickets
    unmapped_jira,      \* _find_and_map_new_tickets
    fd_title_map,       \* _find_and_map_new_tickets
    fd_desc_map,        \* _find_and_map_new_tickets
    jira_matched_keys,  \* _find_and_map_new_tickets
    fd_matched_ids,     \* _find_and_map_new_tickets
    lastCalls,          \* the external calls of the latest step of the run
    runs,               \* runs started
    runStatus,          \* how the latest run ended
    saves,              \* writes of mapping.json in the current run
    cfgSaves,           \* writes of config.json since the start
    firstCutoff,        \* history: the first cutoff a run recorded
    createFailed,       \* history: issue key -> the latest run whose creation call returned no ticket
    faults,             \* failed calls and failed writes so far
    userEvents,         \* user actions so far
    clientDirs,         \* main: config.json and mapping.json of each client folder
    clientIdx,          \* main: the client of the loop of lines 152-153
    mainPc,             \* main: position in process_client of that client
    mapping_data,       \* main: config['mapping_data'] of that client
    results             \* main: how process_client ended, client by client

extVars == <<jira, nextCommentId, fd>>
fileVars == <<configFile, mappingFile>>
mainVars == <<clientDirs, clientIdx, mainPc, mapping_data, results>>
runVars == <<now, jira, nextCommentId, fd, configFile, mappingFile, config, mapping, pc, idx,
             jira_tickets, freshdesk_tickets, unmapped_jira, fd_title_map, fd_desc_map,
             jira_matched_keys, fd_matched_ids, lastCalls, runs, runStatus, saves, cfgSaves,
             firstCutoff, faults, userEvents, createFailed>>
matchVars == <<unmapped_jira, fd_title_map, fd_desc_map, jira_matched_keys, fd_matched_ids>>
fetchVars == <<jira_tickets, freshdesk_tickets>>
vars == <<now, jira, nextCommentId, fd, configFile, mappingFile, config, mapping, pc, idx,
          jira_tickets, freshdesk_tickets, unmapped_jira, fd_title_map, fd_desc_map,
          jira_matched_keys, fd_matched_ids, lastCalls, runs, runStatus, saves, cfgSaves,
          firstCutoff, faults, userEvents, createFailed, mainVars>>

Init ==
    /\ now = 0
    /\ jira = <<>>
    /\ nextCommentId = 1
    /\ fd \in FdInits
    /\ \E smart \in BOOLEAN, comments \in BOOLEAN :
          configFile = [ENABLE_SMART_MAPPING |-> smart, SYNC_COMMENTS |-> comments,
                        FIRST_RUN_TIMESTAMP |-> NoTime]
    /\ mappingFile = <<>>
    /\ config = configFile
    /\ mapping = <<>>
    /\ pc = "idle"
    /\ idx = 1
    /\ jira_tickets = <<>>
    /\ freshdesk_tickets = <<>>
    /\ unmapped_jira = <<>>
    /\ fd_title_map = <<>>
    /\ fd_desc_map = <<>>
    /\ jira_matched_keys = {}
    /\ fd_matched_ids = {}
    /\ lastCalls = <<>>
    /\ runs = 0
    /\ runStatus = "none"
    /\ saves = 0
    /\ cfgSaves = 0
    /\ firstCutoff = NoTime
    /\ createFailed = <<>>
    /\ faults = 0
    /\ userEvents = 0
    /\ clientDirs = <<>>
    /\ clientIdx = 0
    /\ mainPc = "off"
    /\ mapping_data = <<>>
    /\ results = <<>>

\* ---------------------------------------------------- the environment
\* Users act, and time passes, between two runs and between the fetches of a
\* run and its first phase: the phases read the fetched lists, so an event
\* later in the run meets the run as one right after the fetches does.
EnvMayAct == pc = "idle" \/ (pc = "j2f" /\ idx = 1)

Tick ==
    /\ pc = "idle"
    /\ now < MaxTime
    /\ now' = now + 1
    /\ UNCHANGED <<jira, nextCommentId, fd, configFile, mappingFile, config, mapping, pc, idx,
                   jira_tickets, freshdesk_tickets, unmapped_jira, fd_title_map, fd_desc_map,
                   jira_matched_keys, fd_matched_ids, lastCalls, runs, runStatus, saves,
                   cfgSaves, firstCutoff, faults, userEvents, createFailed, mainVars>>

envFrame == <<now, configFile, mappingFile, config, mapping, pc, idx, jira_tickets,
              freshdesk_tickets, unmapped_jira, fd_title_map, fd_desc_map, jira_matched_keys,
              fd_matched_ids, lastCalls, runs, runStatus, saves, cfgSaves, firstCutoff, faults,
              createFailed, mainVars>>

\* a comment stored by the source tracker
JiraAddComment(ticket, id, author, text) ==
    [ticket EXCEPT !.comments = Append(@, [id |-> id, author |-> author, body |-> CommentDoc(text)]),
                   !.updated = now]

\* a conversation entry stored by the target helpdesk
FdAddConversation(ticket, author, private, text) ==
    [ticket EXCEPT !.conversations = Append(@, [body_text |-> text, updated_at |-> now,
                                                private |-> private, user |-> author]),
                   !.updated_at = now]

UserCreatesIssue ==
    /\ EnvMayAct
    /\ userEvents < MaxUserEvents
    /\ Len(jira) < MaxJira
    /\ \E shape \in JiraShapes :
          jira' = Append(jira, [summary |-> shape.summary, description |-> shape.description,
                                priority |-> shape.priority, status |-> shape.status,
                                created |-> now, updated |-> now, comments |-> <<>>])
    /\ userEvents' = userEvents + 1
    /\ UNCHANGED <<nextCommentId, fd>>
    /\ UNCHANGED envFrame

UserComments ==
    /\ EnvMayAct
    /\ userEvents < MaxUserEvents
    /\ \E k \in DOMAIN jira, text \in UserTexts :
          /\ Len(jira[k].comments) < MaxComments
          /\ jira' = [jira EXCEPT ![k] = JiraAddComment(@, nextCommentId, "user", text)]
    /\ nextCommentId' = nextCommentId + 1
    /\ userEvents' = userEvents + 1
    /\ UNCHANGED fd
    /\ UNCHANGED envFrame

AgentReplies ==
    /\ EnvMayAct
    /\ userEvents < MaxUserEvents
    /\ \E f \in DOMAIN fd, e \in AgentEntries :
          /\ Len(fd[f].conversations) < MaxConvs
          /\ fd' = [fd EXCEPT ![f] = FdAddConversation(@, "agent", e.private, e.text)]
    /\ userEvents' = userEvents + 1
    /\ UNCHANGED <<jira, nextCommentId>>
    /\ UNCHANGED envFrame

\* ------------------------------------------------------------ api_client
\* api_request: "ok" is a decoded answer, "none" an answer that does not decode
\* (logged, None returned, the request taken as not served), "raise" a network
\* error, which api_request logs and raises again.
AllOk(n) == [i \in 1..n |-> "ok"]

RECURSIVE OutcomeVectors(_, _)
OutcomeVectors(n, budget) ==
    IF budget <= 0 \/ n = 0 THEN {AllOk(n)}
    ELSE LET less == OutcomeVectors(n, budget - 1)
         IN  less \cup {[v EXCEPT ![i] = o] : v \in less, i \in 1..n, o \in {"none", "raise"}}

\* the outcomes the fault budget still allows
AllowedOutcomes == IF faults < MaxFaults THEN Outcomes ELSE {"ok"}

RECURSIVE Failed(_)
Failed(calls) ==
    IF calls = <<>> THEN 0
    ELSE (IF Head(calls).outcome = "ok" THEN 0 ELSE 1) + Failed(Tail(calls))

Call(api, target, code, text, outcome) ==
    [api |-> api, target |-> target, code |-> code, text |-> text, outcome |-> outcome]

\* dict assignment mapping[k] = e
SetEntry(m, k, e) == [x \in DOMAIN m \cup {k} |-> IF x = k THEN e ELSE m[x]]

\* sorted(seq, key=id): insertion sort, stable
RECURSIVE InsertById(_, _)
InsertById(c, sorted) ==
    IF sorted = <<>> THEN <<c>>
    ELSE IF c.id < Head(sorted).id THEN <<c>> \o sorted
         ELSE <<Head(sorted)>> \o InsertById(c, Tail(sorted))

RECURSIVE SortById(_)
SortById(cs) ==
    IF cs = <<>> THEN <<>> ELSE InsertById(cs[Len(cs)], SortById(SubSeq(cs, 1, Len(cs) - 1)))

\* ---------------------------------------------- the external systems
\* Source tracker search: project issues with updated >= since and, with a
\* created filter, created >= that date; issues in key order.
JiraSearch(since, created_since) ==
    LET hit(k) == /\ jira[k].updated >= since
                  /\ (created_since = NoTime \/ jira[k].created >= created_since)
        keys == SelectSeq([k \in DOMAIN jira |-> k], hit)
    IN  [i \in DOMAIN keys |-> [key |-> keys[i]] @@ jira[keys[i]]]

\* Target helpdesk listing: tickets with updated_at >= since, in id order.
FdList(since) ==
    LET hit(f) == fd[f].updated_at >= since
        ids == SelectSeq([f \in DOMAIN fd |-> f], hit)
    IN  [i \in DOMAIN ids |-> [id |-> ids[i]] @@ fd[ids[i]]]

\* what the helpdesk does with a served call
FdApply(f, c) ==
    IF c.target \notin DOMAIN f THEN f
    ELSE CASE c.api = "fd.update_ticket_fields" ->
                [f EXCEPT ![c.target].priority = c.code, ![c.target].updated_at = now]
           [] c.api = "fd.add_note" ->
                [f EXCEPT ![c.target] = FdAddConversation(@, "bot", TRUE, c.text)]
           [] OTHER -> f

\* Issue the calls in order; a network error ends the step (and the run).
RECURSIVE RunFdCalls(_, _, _, _)
RunFdCalls(st, intents, oc, i) ==
    IF i > Len(intents) \/ st.aborted THEN st
    ELSE LET c == intents[i]
             o == oc[i]
         IN  RunFdCalls([fd |-> IF o = "ok" THEN FdApply(st.fd, c) ELSE st.fd,
                         calls |-> Append(st.calls, [c EXCEPT !.outcome = o]),
                         aborted |-> (o = "raise")],
                        intents, oc, i + 1)

\* ------------------------------------------------------ process_client
\* The locals of a run that has ended.
ClearLocals ==
    /\ idx' = 1
    /\ saves' = 0
    /\ jira_tickets' = <<>>
    /\ freshdesk_tickets' = <<>>
    /\ unmapped_jira' = <<>>
    /\ fd_title_map' = <<>>
    /\ fd_desc_map' = <<>>
    /\ jira_matched_keys' = {}
    /\ fd_matched_ids' = {}

\* except Exception in process_client: the run ends, nothing is saved
Abort ==
    /\ pc' = "idle"
    /\ runStatus' = "aborted"
    /\ ClearLocals

\* process_client up to the first phase: _load_client_config,
\* _prepare_client_environment and the fetches of run_sync_for_client
StartRun ==
    /\ pc = "idle"
    /\ runs < MaxRuns
    /\ runs' = runs + 1
    /\ config' = configFile
    /\ mapping' = mappingFile
    /\ saves' = 0
    /\ \E oc \in OutcomeVectors(2, MaxFaults - faults) :
          LET since_date_str == SinceDate(now, SYNC_DAYS_AGO)
              created_since_filter ==
                  IF ~configFile.ENABLE_SMART_MAPPING /\ configFile.FIRST_RUN_TIMESTAMP # NoTime
                  THEN DayStart(configFile.FIRST_RUN_TIMESTAMP) ELSE NoTime
              jt == IF oc[1] = "ok" THEN JiraSearch(since_date_str, created_since_filter) ELSE <<>>
              ft == IF oc[2] = "ok" THEN FdList(since_date_str) ELSE <<>>
          IN  IF oc[1] = "raise" \/ oc[2] = "raise"
              THEN /\ lastCalls' = IF oc[1] = "raise"
                                   THEN <<Call("jira.search", NoTicket, 0, <<>>, oc[1])>>
                                   ELSE <<Call("jira.search", NoTicket, 0, <<>>, oc[1]),
                                          Call("fd.list", NoTicket, 0, <<>>, oc[2])>>
                   /\ Abort
              ELSE /\ lastCalls' = <<Call("jira.search", NoTicket, 0, <<>>, oc[1]),
                                     Call("fd.list", NoTicket, 0, <<>>, oc[2])>>
                   /\ jira_tickets' = jt
                   /\ freshdesk_tickets' = ft
                   /\ idx' = 1
                   /\ pc' = IF jt = <<>> /\ ft = <<>> THEN "save" ELSE "j2f"
                   /\ runStatus' = "running"
                   /\ UNCHANGED matchVars
    /\ UNCHANGED <<now, extVars, fileVars, cfgSaves, firstCutoff,
                   userEvents, createFailed, mainVars>>
    /\ faults' = faults + Failed(lastCalls')

\* ---------------------------------- _sync_jira_to_freshdesk_updates
\* the gate with a strict comparison: an issue updated at the watermark passes
J2FStaleStrict(entry, jira_ticket) ==
    entry.last_jira_update # NoTime /\ jira_ticket.updated < entry.last_jira_update

\* the staleness gate of lines 104-106
J2FStale(entry, jira_ticket) ==
    entry.last_jira_update # NoTime /\ jira_ticket.updated <= entry.last_jira_update

\* the loop without the tag test of lines 133-134
J2FNewCommentsUnfiltered(entry, jira_ticket, tag) ==
    SelectSeq(SortById(jira_ticket.comments), LAMBDA c : c.id > entry.last_jira_comment_id)

\* the author of a comment whose author object has no displayName
NoDisplayName == "?"

\* the comments of the loop of lines 126-147 that reach add_note: building
\* the note reads comment['author']['displayName'] (line 141), and the
\* KeyError of a comment without it is caught at line 148, after which the
\* loop goes on with the next comment
J2FNewComments(entry, jira_ticket, tag) ==
    LET fresh(c) == /\ c.id > entry.last_jira_comment_id
                    /\ ~Contains(extract_text_from_adf(c.body), tag)
                    /\ c.author # NoDisplayName
    IN  SelectSeq(SortById(jira_ticket.comments), fresh)

\* a note that puts the tag after its header
J2FNoteTagLast(c) ==
    <<"**Comentario do Jira por ", c.author, ":**", NL, TAG, NL>>
        \o extract_text_from_adf(c.body)

\* lines 141-144: the text of the note
J2FNote(c) ==
    <<TAG, NL, "**Comentario do Jira por ", c.author, ":**", NL, NL>>
        \o extract_text_from_adf(c.body)

\* the calls of a pass that pushes the default code 1 for a name the table
\* does not have
J2FIntentsWithDefault(entry, jira_ticket, cfg) ==
    LET fd_id == entry.freshdesk_id
        push == <<Call("fd.update_ticket_fields", fd_id,
                       DictGet(JIRA_PRIORITY_TO_FRESHDESK, jira_ticket.priority, 1), <<>>, "ok")>>
        news == IF cfg.SYNC_COMMENTS THEN J2FNewComments(entry, jira_ticket, TAG) ELSE <<>>
    IN  push \o [i \in DOMAIN news |-> Call("fd.add_note", fd_id, news[i].id, J2FNote(news[i]), "ok")]

\* the calls of a pass that does not read the comment-sync switch
J2FIntentsAlwaysComments(entry, jira_ticket, cfg) ==
    LET fd_id == entry.freshdesk_id
        push == IF jira_ticket.priority # "" /\ jira_ticket.priority \in DOMAIN JIRA_PRIORITY_TO_FRESHDESK
                THEN <<Call("fd.update_ticket_fields", fd_id,
                            JIRA_PRIORITY_TO_FRESHDESK[jira_ticket.priority], <<>>, "ok")>>
                ELSE <<>>
        news == J2FNewComments(entry, jira_ticket, TAG)
    IN  push \o [i \in DOMAIN news |-> Call("fd.add_note", fd_id, news[i].id, J2FNote(news[i]), "ok")]

\* the calls of one ticket that passed the gate, in order
J2FIntents(entry, jira_ticket, cfg) ==
    LET fd_id == entry.freshdesk_id
        push == IF jira_ticket.priority # "" /\ jira_ticket.priority \in DOMAIN JIRA_PRIORITY_TO_FRESHDESK
                THEN <<Call("fd.update_ticket_fields", fd_id,
                            JIRA_PRIORITY_TO_FRESHDESK[jira_ticket.priority], <<>>, "ok")>>
                ELSE <<>>
        news == IF cfg.SYNC_COMMENTS THEN J2FNewComments(entry, jira_ticket, TAG) ELSE <<>>
    IN  push \o [i \in DOMAIN news |-> Call("fd.add_note", fd_id, news[i].id, J2FNote(news[i]), "ok")]

\* a counter that advances only over the notes the helpdesk stored
RECURSIVE MaxServedNoteId(_, _)
MaxServedNoteId(calls, start) ==
    IF calls = <<>> THEN start
    ELSE MaxServedNoteId(Tail(calls),
                         IF /\ Head(calls).api = "fd.add_note"
                            /\ Head(calls).outcome = "ok"
                            /\ Head(calls).code > start
                         THEN Head(calls).code ELSE start)

\* lines 146-153: the largest comment id that reached add_note
RECURSIVE MaxNoteId(_, _)
MaxNoteId(calls, start) ==
    IF calls = <<>> THEN start
    ELSE MaxNoteId(Tail(calls),
                   IF Head(calls).api = "fd.add_note" /\ Head(calls).code > start
                   THEN Head(calls).code ELSE start)

J2FStep ==
    /\ pc = "j2f"
    /\ idx <= Len(jira_tickets)
    /\ LET jira_ticket == jira_tickets[idx]
           jira_key == jira_ticket.key
       IN  IF jira_key \notin DOMAIN mapping \/ J2FStale(mapping[jira_key], jira_ticket)
           THEN /\ lastCalls' = <<>>
                /\ idx' = idx + 1
                /\ UNCHANGED <<fd, mapping, pc, runStatus, fetchVars, matchVars>>
           ELSE LET intents == J2FIntents(mapping[jira_key], jira_ticket, config)
                IN  \E oc \in OutcomeVectors(Len(intents), MaxFaults - faults) :
                       LET st == RunFdCalls([fd |-> fd, calls |-> <<>>, aborted |-> FALSE],
                                            intents, oc, 1)
                           new_max == MaxNoteId(st.calls, mapping[jira_key].last_jira_comment_id)
                       IN  /\ fd' = st.fd
                           /\ lastCalls' = st.calls
                           /\ IF st.aborted
                              THEN Abort /\ UNCHANGED mapping
                              ELSE /\ mapping' = [mapping EXCEPT
                                          ![jira_key].last_jira_comment_id = new_max,
                                          ![jira_key].last_jira_update = now]
                                   /\ idx' = idx + 1
                                   /\ UNCHANGED <<pc, runStatus, fetchVars, matchVars>>
    /\ UNCHANGED <<now, jira, nextCommentId, fileVars, config, runs, saves, cfgSaves,
                   firstCutoff, userEvents, createFailed, mainVars>>
    /\ faults' = faults + Failed(lastCalls')

J2FDone ==
    /\ pc = "j2f"
    /\ idx > Len(jira_tickets)
    /\ pc' = "f2j"
    /\ idx' = 1
    /\ UNCHANGED <<now, extVars, fileVars, config, mapping, fetchVars, matchVars, lastCalls,
                   runs, runStatus, saves, cfgSaves, firstCutoff, faults,
                   userEvents, createFailed, mainVars>>

\* ---------------------------------- _sync_freshdesk_to_jira_updates
DEFAULT_FRESHDESK_TO_JIRA_TRANSITION_MAP ==
    [c \in 2..7 |->
        CASE c = 2 -> <<"Backlog", "To Do", "Tarefas Pendentes", "A Fazer", "Lista de Pendencias">>
          [] c = 3 -> <<"In Progress", "Em andamento", "Em Analise">>
          [] c = 4 -> <<"Done", "Concluido", "Resolvido", "Feito", "Itens Concluidos">>
          [] c = 5 -> <<"Done", "Concluido", "Resolvido", "Feito", "Closed", "Fechado",
                        "Itens Concluidos">>
          [] c = 6 -> <<"Waiting for Customer", "Esperando Cliente", "Waiting on Customer",
                        "Aguardando Informacoes">>
          [] OTHER -> <<"Waiting for Vendor", "Esperando Fornecedor", "Blocked", "Bloqueado">>]

\* str.lower() on the transition names
LowerName(n) ==
    CASE n = "Backlog" -> "backlog" [] n = "To Do" -> "to do"
      [] n = "Tarefas Pendentes" -> "tarefas pendentes" [] n = "A Fazer" -> "a fazer"
      [] n = "Lista de Pendencias" -> "lista de pendencias"
      [] n = "In Progress" -> "in progress" [] n = "Em andamento" -> "em andamento"
      [] n = "Em Analise" -> "em analise" [] n = "Done" -> "done"
      [] n = "DONE" -> "done" [] n = "Concluido" -> "concluido"
      [] n = "Resolvido" -> "resolvido" [] n = "Feito" -> "feito"
      [] n = "Itens Concluidos" -> "itens concluidos" [] n = "Closed" -> "closed"
      [] n = "Fechado" -> "fechado" [] n = "Waiting for Customer" -> "waiting for customer"
      [] n = "Esperando Cliente" -> "esperando cliente"
      [] n = "Waiting on Customer" -> "waiting on customer"
      [] n = "Aguardando Informacoes" -> "aguardando informacoes"
      [] n = "Waiting for Vendor" -> "waiting for vendor"
      [] n = "Esperando Fornecedor" -> "esperando fornecedor"
      [] n = "Blocked" -> "blocked" [] n = "Bloqueado" -> "bloqueado"
      [] OTHER -> n

\* the transitions an issue of the source tracker exposes, in the order listed
JiraWorkflow == <<"to do", "DONE">>

\* a lookup by the exact name
MatchTransitionExact(available, transition_name) ==
    SelectSeq(available, LAMBDA t : t = transition_name)

\* transition_issue, lines 79-85: the first exposed transition of that name
MatchTransition(available, transition_name) ==
    SelectSeq(available, LAMBDA t : LowerName(t) = LowerName(transition_name))

\* a loop over the candidates without the break of line 200
RECURSIVE TryTransitionsNoBreak(_, _, _, _)
TryTransitionsNoBreak(st, key, names, oc) ==
    IF names = <<>> \/ st.aborted THEN st
    ELSE LET name == Head(names)
             g == oc[Len(st.calls) + 1]
             got == [st EXCEPT !.calls = Append(@, Call("jira.get_transitions", key, 0, <<name>>, g))]
             found == SelectSeq(<<"to do", "DONE">>, LAMBDA t : LowerName(t) = LowerName(name))
         IN  IF g = "raise" THEN [got EXCEPT !.aborted = TRUE]
             ELSE IF g = "none" \/ found = <<>> THEN TryTransitionsNoBreak(got, key, Tail(names), oc)
             ELSE LET p == oc[Len(got.calls) + 1]
                      posted == [got EXCEPT
                          !.calls = Append(@, Call("jira.transition", key, 0, <<Head(found)>>, p)),
                          !.jira = IF p = "ok"
                                   THEN [@ EXCEPT ![key].status = Head(found), ![key].updated = now]
                                   ELSE @,
                          !.applied = (p = "ok"),
                          !.aborted = (p = "raise")]
                  IN  TryTransitionsNoBreak(posted, key, Tail(names), oc)

\* a status sync that ends the processing when no transition was applied
TryTransitionsOrStop(st, key, names, oc) ==
    LET r == TryTransitionsNoBreak(st, key, names, oc)
    IN  IF r.applied THEN r ELSE [r EXCEPT !.aborted = TRUE]

\* lines 195-202 with jira_service.transition_issue: the candidates in order
RECURSIVE TryTransitions(_, _, _, _)
TryTransitions(st, key, names, oc) ==
    IF names = <<>> \/ st.aborted \/ st.applied THEN st
    ELSE LET name == Head(names)
             g == oc[Len(st.calls) + 1]
             got == [st EXCEPT !.calls = Append(@, Call("jira.get_transitions", key, 0, <<name>>, g))]
             found == MatchTransition(JiraWorkflow, name)
         IN  IF g = "raise" THEN [got EXCEPT !.aborted = TRUE]
             ELSE IF g = "none" \/ found = <<>> THEN TryTransitions(got, key, Tail(names), oc)
             ELSE LET p == oc[Len(got.calls) + 1]
                      posted == [got EXCEPT
                          !.calls = Append(@, Call("jira.transition", key, 0, <<Head(found)>>, p)),
                          !.jira = IF p = "ok"
                                   THEN [@ EXCEPT ![key].status = Head(found), ![key].updated = now]
                                   ELSE @,
                          !.applied = (p = "ok"),
                          !.aborted = (p = "raise")]
                  IN  TryTransitions(posted, key, Tail(names), oc)

\* jira_service.add_comment, one call after the other
RECURSIVE PostJiraComments(_, _, _, _)
PostJiraComments(st, key, texts, oc) ==
    IF texts = <<>> \/ st.aborted THEN st
    ELSE LET o == oc[Len(st.calls) + 1]
             next == [st EXCEPT
                 !.calls = Append(@, Call("jira.add_comment", key, 0, Head(texts), o)),
                 !.jira = IF o = "ok"
                          THEN [@ EXCEPT ![key] = JiraAddComment(@, st.nextId, "bot", Head(texts))]
                          ELSE @,
                 !.nextId = IF o = "ok" THEN @ + 1 ELSE @,
                 !.aborted = (o = "raise")]
         IN  PostJiraComments(next, key, Tail(texts), oc)

\* the gate with a strict comparison: a ticket updated at the watermark passes
F2JStaleStrict(entry, fd_ticket) ==
    entry.last_freshdesk_update # NoTime /\ fd_ticket.updated_at < entry.last_freshdesk_update

\* the staleness gate of lines 178-179
F2JStale(entry, fd_ticket) ==
    entry.last_freshdesk_update # NoTime /\ fd_ticket.updated_at <= entry.last_freshdesk_update

\* lines 209-211: the conversation entries that reach add_comment
F2JNewConversations(last_sync, convs, tag) ==
    SelectSeq(convs, LAMBDA c : /\ (last_sync = NoTime \/ c.updated_at > last_sync)
                                /\ ~Contains(c.body_text, tag))

\* a comment that labels every entry as a private note
F2JCommentAlwaysPrivate(conv) ==
    <<TAG, NL, "**", "Nota Privada", " do Freshdesk por ", conv.user, ":**", NL, NL>>
        \o conv.body_text

\* lines 212-214: the text of the comment
F2JComment(conv) ==
    <<TAG, NL, "**", IF conv.private THEN "Nota Privada" ELSE "Resposta Publica",
      " do Freshdesk por ", conv.user, ":**", NL, NL>> \o conv.body_text

\* line 166: {str(v['freshdesk_id']): k}; a later key of the dict wins
FdIdToJiraKey(m, fd_id) ==
    LET ks == {k \in DOMAIN m : m[k].freshdesk_id = fd_id}
    IN  IF ks = {} THEN NoTicket ELSE CHOOSE k \in ks : \A j \in ks : j <= k

F2JStep ==
    /\ pc = "f2j"
    /\ idx <= Len(freshdesk_tickets)
    /\ LET fd_ticket == freshdesk_tickets[idx]
           jira_key == FdIdToJiraKey(mapping, fd_ticket.id)
       IN  IF jira_key = NoTicket \/ F2JStale(mapping[jira_key], fd_ticket)
           THEN /\ lastCalls' = <<>>
                /\ idx' = idx + 1
                /\ UNCHANGED <<jira, nextCommentId, mapping, pc, runStatus, fetchVars, matchVars>>
           ELSE LET last_sync == mapping[jira_key].last_freshdesk_update
                    candidate_transitions ==
                        DictGet(DEFAULT_FRESHDESK_TO_JIRA_TRANSITION_MAP, fd_ticket.status, <<>>)
                    n == 2 * Len(candidate_transitions) + 1 + Len(fd[fd_ticket.id].conversations)
                IN  \E oc \in OutcomeVectors(n, MaxFaults - faults) :
                       LET st0 == [jira |-> jira, nextId |-> nextCommentId, calls |-> <<>>,
                                   aborted |-> FALSE, applied |-> FALSE]
                           st1 == TryTransitions(st0, jira_key, candidate_transitions, oc)
                           f == IF config.SYNC_COMMENTS /\ ~st1.aborted
                                THEN oc[Len(st1.calls) + 1] ELSE "ok"
                           st2 == IF config.SYNC_COMMENTS /\ ~st1.aborted
                                  THEN [st1 EXCEPT
                                          !.calls = Append(@, Call("fd.conversations", fd_ticket.id,
                                                                   0, <<>>, f)),
                                          !.aborted = (f = "raise")]
                                  ELSE st1
                           convs == IF config.SYNC_COMMENTS /\ f = "ok"
                                    THEN fd[fd_ticket.id].conversations ELSE <<>>
                           news == F2JNewConversations(last_sync, convs, TAG)
                           st3 == PostJiraComments(st2, jira_key,
                                                   [i \in DOMAIN news |-> F2JComment(news[i])], oc)
                       IN  /\ jira' = st3.jira
                           /\ nextCommentId' = st3.nextId
                           /\ lastCalls' = st3.calls
                           /\ IF st3.aborted
                              THEN Abort /\ UNCHANGED mapping
                              ELSE /\ mapping' = [mapping EXCEPT
                                          ![jira_key].last_freshdesk_update = now]
                                   /\ idx' = idx + 1
                                   /\ UNCHANGED <<pc, runStatus, fetchVars, matchVars>>
    /\ UNCHANGED <<now, fd, fileVars, config, runs, saves, cfgSaves, firstCutoff,
                   userEvents, createFailed, mainVars>>
    /\ faults' = faults + Failed(lastCalls')

\* a run that goes back to the source->target pass after the target->source pass
F2JDoneThenJ2F ==
    /\ pc = "f2j"
    /\ idx > Len(freshdesk_tickets)
    /\ pc' = "j2f"
    /\ idx' = 1
    /\ UNCHANGED <<now, extVars, fileVars, config, mapping, fetchVars, matchVars, lastCalls,
                   runs, runStatus, saves, cfgSaves, firstCutoff, faults,
                   userEvents, createFailed, mainVars>>

F2JDone ==
    /\ pc = "f2j"
    /\ idx > Len(freshdesk_tickets)
    /\ pc' = "map"
    /\ idx' = 1
    /\ UNCHANGED <<now, extVars, fileVars, config, mapping, fetchVars, matchVars, lastCalls,
                   runs, runStatus, saves, cfgSaves, firstCutoff, faults,
                   userEvents, createFailed, mainVars>>

\* ---------------------------------------- _find_and_map_new_tickets
\* an entry that starts at the newest comment id instead of 0
NewEntryAtNewest(fd_id) ==
    [freshdesk_id |-> fd_id, last_jira_update |-> now, last_freshdesk_update |-> now,
     last_jira_comment_id |-> nextCommentId]

\* an entry written without the target watermark
NewEntryNoTargetWatermark(fd_id) ==
    [freshdesk_id |-> fd_id, last_jira_update |-> now, last_freshdesk_update |-> NoTime,
     last_jira_comment_id |-> 0]

\* lines 225-230 and 253-258: the entry a match or a creation writes
NewEntry(fd_id) ==
    [freshdesk_id |-> fd_id, last_jira_update |-> now, last_freshdesk_update |-> now,
     last_jira_comment_id |-> 0]

\* the fetched issues without the test on the mapping
AllFetched(tickets, m) == tickets

\* line 268: the fetched issues without a mapping entry
Unmapped(tickets, m) == SelectSeq(tickets, LAMBDA t : t.key \notin DOMAIN m)

\* the candidates without the filter on the mapped target ids
AllCandidates(cands, m) == cands

\* lines 287-290: the candidates no mapping entry claims
FreeCandidates(cands, m) ==
    LET mapped_fd_ids == {m[k].freshdesk_id : k \in DOMAIN m}
    IN  SelectSeq(cands, LAMBDA c : c.id \notin mapped_fd_ids)

FdNormTitle(c) == normalize_text(c.subject)
FdNormDesc(c) ==
    IF c.description_text = <<>> THEN <<>>
    ELSE normalize_text(strip_html_tags(c.description_text))

\* a floor that admits a description of exactly DescFloor characters
AboveFloorOrAt(norm_desc) == Len(norm_desc) >= DescFloor

\* lines 296 and 314: len(norm_desc) > 20
AboveFloor(norm_desc) == Len(norm_desc) > DescFloor

\* lines 291-296: normalized text -> ids of the candidates, in fetch order
TitleMap(cands) ==
    [t \in {FdNormTitle(cands[i]) : i \in DOMAIN cands} \ {<<>>} |->
        LET same == SelectSeq(cands, LAMBDA c : FdNormTitle(c) = t)
        IN  [i \in DOMAIN same |-> same[i].id]]

DescMap(cands) ==
    [t \in {d \in {FdNormDesc(cands[i]) : i \in DOMAIN cands} : AboveFloor(d)} |->
        LET same == SelectSeq(cands, LAMBDA c : FdNormDesc(c) = t)
        IN  [i \in DOMAIN same |-> same[i].id]]

\* the first listed candidate, whether or not this run has claimed it
FirstListed(ids, claimed) ==
    IF ids = <<>> THEN NoTicket ELSE Head(ids)

\* the last listed candidate not claimed in this run
LastUnclaimed(ids, claimed) ==
    LET free == SelectSeq(ids, LAMBDA f : f \notin claimed)
    IN  IF free = <<>> THEN NoTicket ELSE free[Len(free)]

\* lines 302-307 and 315-320: the first listed candidate not claimed in this run
FirstUnclaimed(ids, claimed) ==
    LET free == SelectSeq(ids, LAMBDA f : f \notin claimed)
    IN  IF free = <<>> THEN NoTicket ELSE Head(free)

\* the gate at the granularity of the fetch filter: the calendar day
CutoverAdmitsSameDay(ticket_creation_date, first_run_date) ==
    /\ ticket_creation_date # NoTime
    /\ first_run_date # NoTime
    /\ DayStart(ticket_creation_date) >= DayStart(first_run_date)

\* line 337: the creation gate of the cutover mode
CutoverAdmits(ticket_creation_date, first_run_date) ==
    /\ ticket_creation_date # NoTime
    /\ first_run_date # NoTime
    /\ ticket_creation_date >= first_run_date

MatchComment(fd_id, match_type) ==
    <<TAG, " Ticket mapeado para o Freshdesk ID existente: ", ToString(fd_id),
      " (correspondencia por ", match_type, ").">>

CreatedComment(fd_id) ==
    <<TAG, " Ticket criado e sincronizado com o Freshdesk. ID: ", ToString(fd_id)>>

\* lines 265-298 and 327-334: up to the first loop over the unmapped issues
MapStart ==
    /\ pc = "map"
    /\ LET unmapped == Unmapped(jira_tickets, mapping)
       IN  IF unmapped = <<>>
           THEN /\ pc' = "save"
                /\ lastCalls' = <<>>
                /\ UNCHANGED <<config, idx, runStatus, fetchVars, matchVars>>
           ELSE IF config.ENABLE_SMART_MAPPING
           THEN \E o \in AllowedOutcomes :
                   LET since_date == SinceDate(now, MAPPING_LOOKBACK_DAYS)
                       fd_candidates == IF o = "ok" THEN FdList(since_date) ELSE <<>>
                       free == FreeCandidates(fd_candidates, mapping)
                   IN  /\ lastCalls' = <<Call("fd.list", NoTicket, 0, <<>>, o)>>
                       /\ UNCHANGED config
                       /\ IF o = "raise" THEN Abort
                          ELSE /\ unmapped_jira' = unmapped
                               /\ fd_title_map' = IF fd_candidates = <<>> THEN <<>> ELSE TitleMap(free)
                               /\ fd_desc_map' = IF fd_candidates = <<>> THEN <<>> ELSE DescMap(free)
                               /\ jira_matched_keys' = {}
                               /\ fd_matched_ids' = {}
                               /\ idx' = 1
                               /\ pc' = IF fd_candidates = <<>> THEN "create" ELSE "title"
                               /\ UNCHANGED <<runStatus, fetchVars>>
           ELSE /\ config' = IF config.FIRST_RUN_TIMESTAMP = NoTime
                             THEN [config EXCEPT !.FIRST_RUN_TIMESTAMP = now] ELSE config
                /\ unmapped_jira' = unmapped
                /\ idx' = 1
                /\ pc' = "cutover"
                /\ lastCalls' = <<>>
                /\ UNCHANGED <<runStatus, fetchVars, fd_title_map, fd_desc_map,
                               jira_matched_keys, fd_matched_ids>>
    /\ firstCutoff' = IF firstCutoff = NoTime THEN config'.FIRST_RUN_TIMESTAMP ELSE firstCutoff
    /\ UNCHANGED <<now, extVars, fileVars, mapping, runs, saves, cfgSaves,
                   userEvents, createFailed, mainVars>>
    /\ faults' = faults + Failed(lastCalls')

\* _record_match: the entry, then the comment on the issue
RecordMatch(jira_key, fd_id, match_type) ==
    \E o \in AllowedOutcomes :
       /\ mapping' = SetEntry(mapping, jira_key, NewEntry(fd_id))
       /\ lastCalls' = <<Call("jira.add_comment", jira_key, 0, MatchComment(fd_id, match_type), o)>>
       /\ jira' = IF o = "ok"
                  THEN [jira EXCEPT ![jira_key] =
                           JiraAddComment(@, nextCommentId, "bot", MatchComment(fd_id, match_type))]
                  ELSE jira
       /\ nextCommentId' = IF o = "ok" THEN nextCommentId + 1 ELSE nextCommentId
       /\ IF o = "raise" THEN Abort
          ELSE /\ jira_matched_keys' = jira_matched_keys \cup {jira_key}
               /\ fd_matched_ids' = fd_matched_ids \cup {fd_id}
               /\ idx' = idx + 1
               /\ UNCHANGED <<pc, runStatus, fetchVars, unmapped_jira, fd_title_map, fd_desc_map>>

NoMatch ==
    /\ idx' = idx + 1
    /\ lastCalls' = <<>>
    /\ UNCHANGED <<jira, nextCommentId, mapping, pc, runStatus, fetchVars, matchVars>>

\* lines 299-307: one issue of the title pass
TitleStep ==
    /\ pc = "title"
    /\ idx <= Len(unmapped_jira)
    /\ LET jira_ticket == unmapped_jira[idx]
           norm_title == normalize_text(jira_ticket.summary)
           fd_id == IF norm_title \in DOMAIN fd_title_map
                    THEN FirstUnclaimed(fd_title_map[norm_title], fd_matched_ids)
                    ELSE NoTicket
       IN  IF fd_id # NoTicket THEN RecordMatch(jira_ticket.key, fd_id, "titulo") ELSE NoMatch
    /\ UNCHANGED <<now, fd, fileVars, config, runs, saves, cfgSaves, firstCutoff,
                   userEvents, createFailed, mainVars>>
    /\ faults' = faults + Failed(lastCalls')

TitleDone ==
    /\ pc = "title"
    /\ idx > Len(unmapped_jira)
    /\ pc' = "desc"
    /\ idx' = 1
    /\ UNCHANGED <<now, extVars, fileVars, config, mapping, fetchVars, matchVars, lastCalls,
                   runs, runStatus, saves, cfgSaves, firstCutoff, faults,
                   userEvents, createFailed, mainVars>>

\* lines 309-320: one issue of the description pass
DescStep ==
    /\ pc = "desc"
    /\ idx <= Len(unmapped_jira)
    /\ LET jira_ticket == unmapped_jira[idx]
           desc_text == extract_description(jira_ticket)
           norm_desc == normalize_text(desc_text)
           fd_id == IF /\ jira_ticket.key \notin jira_matched_keys
                       /\ desc_text # <<>>
                       /\ AboveFloor(norm_desc)
                       /\ norm_desc \in DOMAIN fd_desc_map
                    THEN FirstUnclaimed(fd_desc_map[norm_desc], fd_matched_ids)
                    ELSE NoTicket
       IN  IF fd_id # NoTicket THEN RecordMatch(jira_ticket.key, fd_id, "descricao") ELSE NoMatch
    /\ UNCHANGED <<now, fd, fileVars, config, runs, saves, cfgSaves, firstCutoff,
                   userEvents, createFailed, mainVars>>
    /\ faults' = faults + Failed(lastCalls')

DescDone ==
    /\ pc = "desc"
    /\ idx > Len(unmapped_jira)
    /\ pc' = "create"
    /\ idx' = 1
    /\ UNCHANGED <<now, extVars, fileVars, config, mapping, fetchVars, matchVars, lastCalls,
                   runs, runStatus, saves, cfgSaves, firstCutoff, faults,
                   userEvents, createFailed, mainVars>>

\* freshdesk_service.create_ticket: the ticket the helpdesk stores
CreatedTicket(jira_ticket, description) ==
    [subject |-> jira_ticket.summary, description_text |-> description,
     status |-> DictGet(JIRA_STATUS_TO_FRESHDESK, jira_ticket.status, 2),
     priority |-> DictGet(JIRA_PRIORITY_TO_FRESHDESK, jira_ticket.priority, 1),
     updated_at |-> now, tag |-> jira_ticket.key, conversations |-> <<>>]

Placeholder == <<"Descricao nao fornecida.">>

\* _create_new_ticket: the creation call, the entry, the confirming comment
\* a test that takes every answer of the creation call for a ticket
AnyAnswer(outcome) == outcome # "raise"

\* line 250: new_fd_ticket and 'id' in new_fd_ticket
TicketReturned(outcome) == outcome = "ok"

CreateNewTicket(jira_ticket) ==
    \E oc \in OutcomeVectors(2, MaxFaults - faults) :
       LET description == IF extract_description(jira_ticket) = <<>> THEN Placeholder
                          ELSE extract_description(jira_ticket)
           fd_id == Len(fd) + 1
           create == Call("fd.create_ticket", jira_ticket.key, 0, jira_ticket.summary, oc[1])
           comment == Call("jira.add_comment", jira_ticket.key, 0, CreatedComment(fd_id), oc[2])
       IN  IF ~TicketReturned(oc[1])
           THEN /\ lastCalls' = <<create>>
                /\ createFailed' = IF oc[1] = "none"
                                   THEN SetEntry(createFailed, jira_ticket.key, runs)
                                   ELSE createFailed
                /\ UNCHANGED <<jira, nextCommentId, fd, mapping>>
                /\ IF oc[1] = "raise" THEN Abort
                   ELSE /\ idx' = idx + 1
                        /\ UNCHANGED <<pc, runStatus, fetchVars, matchVars>>
           ELSE /\ fd' = Append(fd, CreatedTicket(jira_ticket, description))
                /\ mapping' = SetEntry(mapping, jira_ticket.key, NewEntry(fd_id))
                /\ lastCalls' = <<create, comment>>
                /\ UNCHANGED createFailed
                /\ jira' = IF oc[2] = "ok"
                           THEN [jira EXCEPT ![jira_ticket.key] =
                                    JiraAddComment(@, nextCommentId, "bot", CreatedComment(fd_id))]
                           ELSE jira
                /\ nextCommentId' = IF oc[2] = "ok" THEN nextCommentId + 1 ELSE nextCommentId
                /\ IF oc[2] = "raise" THEN Abort
                   ELSE /\ idx' = idx + 1
                        /\ UNCHANGED <<pc, runStatus, fetchVars, matchVars>>

SkipTicket ==
    /\ idx' = idx + 1
    /\ lastCalls' = <<>>
    /\ UNCHANGED <<jira, nextCommentId, fd, mapping, pc, runStatus, fetchVars, matchVars,
                   createFailed>>

\* a creation loop that does not look at the issues the matcher linked
CreateStepForAll ==
    /\ pc = "create"
    /\ idx <= Len(unmapped_jira)
    /\ CreateNewTicket(unmapped_jira[idx])
    /\ UNCHANGED <<now, fileVars, config, runs, saves, cfgSaves, firstCutoff, userEvents, mainVars>>
    /\ faults' = faults + Failed(lastCalls')

\* lines 283-285 and 323-325: one issue of the creation loop
CreateStep ==
    /\ pc = "create"
    /\ idx <= Len(unmapped_jira)
    /\ IF unmapped_jira[idx].key \notin jira_matched_keys
       THEN CreateNewTicket(unmapped_jira[idx])
       ELSE SkipTicket
    /\ UNCHANGED <<now, fileVars, config, runs, saves, cfgSaves, firstCutoff, userEvents, mainVars>>
    /\ faults' = faults + Failed(lastCalls')

\* lines 335-341: one issue of the cutover loop
CutoverStep ==
    /\ pc = "cutover"
    /\ idx <= Len(unmapped_jira)
    /\ IF CutoverAdmits(unmapped_jira[idx].created, config.FIRST_RUN_TIMESTAMP)
       THEN CreateNewTicket(unmapped_jira[idx])
       ELSE SkipTicket
    /\ UNCHANGED <<now, fileVars, config, runs, saves, cfgSaves, firstCutoff, userEvents, mainVars>>
    /\ faults' = faults + Failed(lastCalls')

\* the return of run_sync_for_client after the last loop
MapDone ==
    /\ pc \in {"create", "cutover"}
    /\ idx > Len(unmapped_jira)
    /\ pc' = "save"
    /\ idx' = 1
    /\ UNCHANGED <<now, extVars, fileVars, config, mapping, fetchVars, matchVars, lastCalls,
                   runs, runStatus, saves, cfgSaves, firstCutoff, faults,
                   userEvents, createFailed, mainVars>>

\* ------------------------------------------------------- orchestrator
\* a test that lets an empty mapping through
AnyMappingData(m) == TRUE

\* line 67: config.get('mapping_data') is truthy
HasMappingData(m) == m # <<>>

\* _save_mapping: nothing for an empty mapping; else the file is rewritten;
\* "raise" is a failure to open it, which is logged (lines 75-76)
SaveMapping ==
    /\ pc = "save"
    /\ pc' = "savecfg"
    /\ IF ~HasMappingData(mapping)
       THEN UNCHANGED <<mappingFile, saves, faults>>
       ELSE /\ saves' = saves + 1
            /\ \E o \in AllowedOutcomes \ {"none"} :
                  /\ mappingFile' = IF o = "ok" THEN mapping ELSE mappingFile
                  /\ faults' = IF o = "ok" THEN faults ELSE faults + 1
    /\ lastCalls' = <<>>
    /\ UNCHANGED <<now, extVars, configFile, config, mapping, idx, fetchVars, matchVars,
                   runs, runStatus, cfgSaves, firstCutoff, userEvents, createFailed, mainVars>>

\* _save_config_if_changed, and the end of process_client
SaveConfig ==
    /\ pc = "savecfg"
    /\ IF config.FIRST_RUN_TIMESTAMP # NoTime /\ configFile.FIRST_RUN_TIMESTAMP = NoTime
       THEN \E o \in AllowedOutcomes \ {"none"} :
               /\ configFile' = IF o = "ok"
                                THEN [configFile EXCEPT
                                         !.FIRST_RUN_TIMESTAMP = config.FIRST_RUN_TIMESTAMP]
                                ELSE configFile
               /\ cfgSaves' = IF o = "ok" THEN cfgSaves + 1 ELSE cfgSaves
               /\ faults' = IF o = "ok" THEN faults ELSE faults + 1
       ELSE UNCHANGED <<configFile, cfgSaves, faults>>
    /\ pc' = "idle"
    /\ runStatus' = "ok"
    /\ ClearLocals
    /\ lastCalls' = <<>>
    /\ UNCHANGED <<now, extVars, mappingFile, config, mapping, runs, firstCutoff,
                   userEvents, createFailed, mainVars>>

\* ------------------------------------------------------------- main
\* main over the client folders.  Here process_client is followed from
\* outside: the files a client folder can hold, the exceptions that reach
\* process_client and main, and a write of mapping.json that fails after the
\* file was opened.  run_sync_for_client is one step, which returns or
\* raises after it changed the in-memory mapping the way its phases do
\* (new entries for keys without one, larger comment numbers).
NClients == 2

\* config.json: usable, absent, not JSON, without a required key
ConfigKinds == {"ok", "missing", "undecodable", "incomplete"}

\* mapping.json: "ok" a JSON object of entries, "missing" no file, "syntax" a
\* text that is not JSON (an empty or cut file included), "bytes" bytes that
\* are not UTF-8
MappingFile(kind, data) == [kind |-> kind, data |-> data]

MainEntry(fd_id, comment_id) ==
    [freshdesk_id |-> fd_id, last_jira_update |-> 0, last_freshdesk_update |-> 0,
     last_jira_comment_id |-> comment_id]

InitialMappingFiles ==
    { MappingFile("missing", <<>>), MappingFile("syntax", <<>>), MappingFile("bytes", <<>>),
      MappingFile("ok", SetEntry(<<>>, 1, MainEntry(1, 0))) }

\* a config the checks of _load_client_config would let through without
\* the test on the required keys
ConfigDecodes(kind) == kind \in {"ok", "incomplete"}

\* _load_client_config returns the config: the file exists (line 17),
\* decodes (lines 21-26) and holds the required keys (lines 28-31)
ConfigUsable(kind) == kind = "ok"

\* lines 45-51: json.load of mapping.json; JSONDecodeError is caught
LoadMapping(file) == IF file.kind = "ok" THEN file.data ELSE <<>>

\* lines 47-49: UnicodeDecodeError is no JSONDecodeError and is not caught
LoadRaises(file) == file.kind = "bytes"

\* what the phases of run_sync_for_client can do to the in-memory mapping
RunEffects(m) ==
    {m}
    \cup {SetEntry(m, k, MainEntry(Cardinality(DOMAIN m) + 2, 0)) : k \in (1..MaxJira) \ DOMAIN m}
    \cup {[m EXCEPT ![k].last_jira_comment_id = @ + 1] :
             k \in {x \in DOMAIN m : m[x].last_jira_comment_id < MaxComments}}

\* lines 71-76: open(..., 'w') and json.dump; "open" is a failure to open the
\* file, "partial" a failure of the dump after open has emptied the file
WrittenFile(old, m, outcome) ==
    CASE outcome = "ok" -> MappingFile("ok", m)
      [] outcome = "open" -> old
      [] OTHER -> MappingFile("syntax", <<>>)

\* process_client returns; the loop of main goes on
EndClient(result) ==
    /\ results' = Append(results, result)
    /\ clientIdx' = clientIdx + 1
    /\ mainPc' = IF clientIdx = NClients THEN "done" ELSE "load"
    /\ mapping_data' = <<>>

\* process_client, lines 112-113
LoadClientConfig ==
    /\ mainPc = "load"
    /\ IF ConfigUsable(clientDirs[clientIdx].config)
       THEN /\ mainPc' = "prepare"
            /\ UNCHANGED <<clientIdx, results, mapping_data>>
       ELSE EndClient("config_error")
    /\ UNCHANGED <<clientDirs, runVars>>

\* process_client, line 115: outside the try of line 117
PrepareClientEnvironment ==
    /\ mainPc = "prepare"
    /\ IF LoadRaises(clientDirs[clientIdx].mapping)
       THEN /\ mainPc' = "crashed"
            /\ UNCHANGED mapping_data
       ELSE /\ mainPc' = "sync"
            /\ mapping_data' = LoadMapping(clientDirs[clientIdx].mapping)
    /\ UNCHANGED <<clientDirs, clientIdx, results, runVars>>

\* a process_client that goes on to the persist when the phases raise
RunSyncForClientPersistsOnRaise ==
    /\ mainPc = "sync"
    /\ \E m \in RunEffects(mapping_data), raised \in BOOLEAN :
          /\ mapping_data' = m
          /\ mainPc' = "save"
          /\ results' = IF raised THEN Append(results, "failed") ELSE results
    /\ UNCHANGED <<clientDirs, clientIdx, runVars>>

\* process_client, lines 117-118 and 125-128: run_sync_for_client returns,
\* or raises into the except clause
RunSyncForClient ==
    /\ mainPc = "sync"
    /\ \E m \in RunEffects(mapping_data), raised \in BOOLEAN :
          IF raised
          THEN EndClient("failed")
          ELSE /\ mapping_data' = m
               /\ mainPc' = "save"
               /\ UNCHANGED <<clientIdx, results>>
    /\ UNCHANGED <<clientDirs, runVars>>

\* process_client, line 121: _save_mapping, which catches what the write raises
SaveClientMapping ==
    /\ mainPc = "save"
    /\ mainPc' = "savecfg"
    /\ IF ~HasMappingData(mapping_data)
       THEN UNCHANGED clientDirs
       ELSE \E outcome \in {"ok", "open", "partial"} :
               clientDirs' = [clientDirs EXCEPT ![clientIdx].mapping =
                                 WrittenFile(@, mapping_data, outcome)]
    /\ UNCHANGED <<clientIdx, mapping_data, results, runVars>>

\* process_client, lines 122-124
SaveClientConfig ==
    /\ mainPc = "savecfg"
    /\ EndClient("ok")
    /\ UNCHANGED <<clientDirs, runVars>>

\* ------------------------------------------------------ specification
Next ==
    \/ Tick
    \/ UserCreatesIssue
    \/ UserComments
    \/ AgentReplies
    \/ StartRun
    \/ J2FStep
    \/ J2FDone
    \/ F2JStep
    \/ F2JDone
    \/ MapStart
    \/ TitleStep
    \/ TitleDone
    \/ DescStep
    \/ DescDone
    \/ CreateStep
    \/ CutoverStep
    \/ MapDone
    \/ SaveMapping
    \/ SaveConfig

Spec == Init /\ [][Next]_vars

\* ---------------------------------------------- a deployment in service
\* The state after a first run, with matching enabled, has linked one issue
\* to the first helpdesk ticket by title and has persisted the entry; the
\* operator has then edited config.json and left matching on or turned it
\* off.  No cutoff has been recorded yet.
LinkedIssue ==
    [summary |-> Title1, description |-> ShortDoc, priority |-> "Highest", status |-> "Backlog",
     created |-> 0, updated |-> 0,
     comments |-> <<[id |-> 1, author |-> "bot", body |-> CommentDoc(MatchComment(1, "titulo"))]>>]

LinkedInit ==
    /\ now = 0
    /\ jira = <<LinkedIssue>>
    /\ nextCommentId = 2
    /\ fd \in FdInits \ {<<>>}
    /\ \E smart \in BOOLEAN :
          configFile = [ENABLE_SMART_MAPPING |-> smart, SYNC_COMMENTS |-> TRUE,
                        FIRST_RUN_TIMESTAMP |-> NoTime]
    /\ mappingFile = SetEntry(<<>>, 1, NewEntry(1))
    /\ config = configFile
    /\ mapping = <<>>
    /\ pc = "idle"
    /\ idx = 1
    /\ jira_tickets = <<>>
    /\ freshdesk_tickets = <<>>
    /\ unmapped_jira = <<>>
    /\ fd_title_map = <<>>
    /\ fd_desc_map = <<>>
    /\ jira_matched_keys = {}
    /\ fd_matched_ids = {}
    /\ lastCalls = <<>>
    /\ runs = 0
    /\ runStatus = "none"
    /\ saves = 0
    /\ cfgSaves = 0
    /\ firstCutoff = NoTime
    /\ createFailed = <<>>
    /\ faults = 0
    /\ userEvents = 0
    /\ clientDirs = <<>>
    /\ clientIdx = 0
    /\ mainPc = "off"
    /\ mapping_data = <<>>
    /\ results = <<>>

LinkedSpec == LinkedInit /\ [][Next]_vars

\* ------------------------------------------ a comment that cannot be read
\* A linked issue holds two comments of users the engine has not seen yet:
\* the first comes without the author's displayName, the second is complete.
UnreadableIssue ==
    [summary |-> Title1, description |-> ShortDoc, priority |-> "Highest", status |-> "Backlog",
     created |-> 0, updated |-> 1,
     comments |-> <<[id |-> 1, author |-> NoDisplayName, body |-> CommentDoc(<<"ola">>)],
                    [id |-> 2, author |-> "user", body |-> CommentDoc(<<"ola">>)]>>]

UnreadableInit ==
    /\ now = 1
    /\ jira = <<UnreadableIssue>>
    /\ nextCommentId = 3
    /\ fd \in FdInits \ {<<>>}
    /\ \E smart \in BOOLEAN :
          configFile = [ENABLE_SMART_MAPPING |-> smart, SYNC_COMMENTS |-> TRUE,
                        FIRST_RUN_TIMESTAMP |-> NoTime]
    /\ mappingFile = SetEntry(<<>>, 1, [freshdesk_id |-> 1, last_jira_update |-> 0,
                                        last_freshdesk_update |-> 0,
                                        last_jira_comment_id |-> 0])
    /\ config = configFile
    /\ mapping = <<>>
    /\ pc = "idle"
    /\ idx = 1
    /\ jira_tickets = <<>>
    /\ freshdesk_tickets = <<>>
    /\ unmapped_jira = <<>>
    /\ fd_title_map = <<>>
    /\ fd_desc_map = <<>>
    /\ jira_matched_keys = {}
    /\ fd_matched_ids = {}
    /\ lastCalls = <<>>
    /\ runs = 0
    /\ runStatus = "none"
    /\ saves = 0
    /\ cfgSaves = 0
    /\ firstCutoff = NoTime
    /\ createFailed = <<>>
    /\ faults = 0
    /\ userEvents = 0
    /\ clientDirs = <<>>
    /\ clientIdx = 0
    /\ mainPc = "off"
    /\ mapping_data = <<>>
    /\ results = <<>>

UnreadableSpec == UnreadableInit /\ [][Next]_vars

\* ------------------------------------------------- a period without users
\* From some point on nobody but the engine touches a ticket, the scheduler
\* keeps starting runs, at least one per tick, and the clock keeps advancing.
\* The clock has no last tick; the state stays finite because
\* the engine reads the clock only through comparisons of two times and
\* through calendar days, so that one day can be subtracted from every
\* recent time of the state without changing anything the engine will do.
QuietHorizon == 4 * TicksPerDay

\* the issue the engine created a helpdesk ticket for in a run at tick 0,
\* and on which a user wrote a last comment at tick 1
QuietIssue(shape) ==
    [summary |-> shape.summary, description |-> shape.description,
     priority |-> shape.priority, status |-> shape.status,
     created |-> 0, updated |-> 1,
     comments |-> <<[id |-> 1, author |-> "bot", body |-> CommentDoc(CreatedComment(1))],
                    [id |-> 2, author |-> "user", body |-> CommentDoc(<<"ola">>)]>>]

\* the entry and the ticket of that creation
QuietEntry ==
    [freshdesk_id |-> 1, last_jira_update |-> 0, last_freshdesk_update |-> 0,
     last_jira_comment_id |-> 0]

QuietTicket(shape) ==
    [CreatedTicket([key |-> 1] @@ QuietIssue(shape), extract_description(QuietIssue(shape)))
        EXCEPT !.updated_at = 0]

\* what the source->target pass of a run at tick 1 made of them
QuietPass(shape, cfg) ==
    LET intents == J2FIntents(QuietEntry, [key |-> 1] @@ QuietIssue(shape), cfg)
    IN  RunFdCalls([fd |-> <<QuietTicket(shape)>>, calls |-> <<>>, aborted |-> FALSE],
                   intents, AllOk(Len(intents)), 1)

\* the last user act was that comment, and a run at tick 1 has delivered it
QuietInit ==
    /\ now = 1
    /\ \E shape \in JiraShapes, comments \in BOOLEAN :
          /\ configFile = [ENABLE_SMART_MAPPING |-> TRUE, SYNC_COMMENTS |-> comments,
                           FIRST_RUN_TIMESTAMP |-> NoTime]
          /\ jira = <<QuietIssue(shape)>>
          /\ fd = QuietPass(shape, configFile).fd
          /\ mappingFile =
                SetEntry(<<>>, 1,
                         [QuietEntry EXCEPT
                             !.last_jira_update = 1,
                             !.last_jira_comment_id =
                                 MaxNoteId(QuietPass(shape, configFile).calls, 0)])
    /\ nextCommentId = 3
    /\ config = configFile
    /\ mapping = mappingFile
    /\ pc = "idle"
    /\ idx = 1
    /\ jira_tickets = <<>>
    /\ freshdesk_tickets = <<>>
    /\ unmapped_jira = <<>>
    /\ fd_title_map = <<>>
    /\ fd_desc_map = <<>>
    /\ jira_matched_keys = {}
    /\ fd_matched_ids = {}
    /\ lastCalls = <<>>
    /\ runs = 1
    /\ runStatus = "ok"
    /\ saves = 0
    /\ cfgSaves = 0
    /\ firstCutoff = NoTime
    /\ createFailed = <<>>
    /\ faults = MaxFaults
    /\ userEvents = MaxUserEvents
    /\ clientDirs = <<>>
    /\ clientIdx = 0
    /\ mainPc = "off"
    /\ mapping_data = <<>>
    /\ results = <<>>

\* time passes after a run at the current tick: the scheduler's period is
\* shorter than a tick, and runs counts the runs started since the last tick
QuietTick ==
    /\ pc = "idle"
    /\ runs >= 1
    /\ now < QuietHorizon
    /\ now' = now + 1
    /\ runs' = 0
    /\ UNCHANGED <<jira, nextCommentId, fd, configFile, mappingFile, config, mapping, pc, idx,
                   jira_tickets, freshdesk_tickets, unmapped_jira, fd_title_map, fd_desc_map,
                   jira_matched_keys, fd_matched_ids, lastCalls, runStatus, saves,
                   cfgSaves, firstCutoff, faults, userEvents, createFailed, mainVars>>

\* every time the state holds
Stamps ==
    {now, firstCutoff, configFile.FIRST_RUN_TIMESTAMP, config.FIRST_RUN_TIMESTAMP}
    \cup {jira[k].created : k \in DOMAIN jira} \cup {jira[k].updated : k \in DOMAIN jira}
    \cup {fd[f].updated_at : f \in DOMAIN fd}
    \cup UNION {{fd[f].conversations[i].updated_at : i \in DOMAIN fd[f].conversations} :
                f \in DOMAIN fd}
    \cup UNION {{mapping[k].last_jira_update, mapping[k].last_freshdesk_update} :
                k \in DOMAIN mapping}
    \cup UNION {{mappingFile[k].last_jira_update, mappingFile[k].last_freshdesk_update} :
                k \in DOMAIN mappingFile}

\* the times older than the window of a fetch made at the horizon
OldStamps == {t \in Stamps : t >= 0 /\ t < QuietHorizon - TicksPerDay}

\* a time of the last day is moved one day back; the older times are moved
\* to the first ticks, in their order
Renamed(t) ==
    IF t = NoTime THEN NoTime
    ELSE IF t < QuietHorizon - TicksPerDay THEN Cardinality({u \in OldStamps : u < t})
    ELSE t - TicksPerDay

RenamedEntries(m) ==
    [k \in DOMAIN m |-> [m[k] EXCEPT !.last_jira_update = Renamed(@),
                                     !.last_freshdesk_update = Renamed(@)]]

RenamedConversations(cs) == [i \in DOMAIN cs |-> [cs[i] EXCEPT !.updated_at = Renamed(@)]]

\* the renaming keeps the order of any two times and the side of each fetch
\* window a time lies on: the older times have room before the window of a
\* fetch made right after the renaming, as they lie before the window of a
\* fetch made right before it; and the engine reads no other time: every
\* issue has its entry (the matching phase, with its longer window, reads no
\* ticket) and no cutoff is in use (no creation time and no calendar day of
\* a stored time is read)
RenamingExact ==
    /\ Cardinality(OldStamps) <= QuietHorizon - 2 * TicksPerDay
    /\ \A k \in DOMAIN jira : k \in DOMAIN mappingFile
    /\ configFile.ENABLE_SMART_MAPPING /\ configFile.FIRST_RUN_TIMESTAMP = NoTime
    /\ config.ENABLE_SMART_MAPPING /\ config.FIRST_RUN_TIMESTAMP = NoTime
    /\ SinceDate(now, SYNC_DAYS_AGO) = QuietHorizon - TicksPerDay
    /\ SinceDate(Renamed(now), SYNC_DAYS_AGO) = QuietHorizon - 2 * TicksPerDay

\* the epoch is renamed: not a step of the engine, and no change of anything
\* it can observe
Rebase ==
    /\ pc = "idle"
    /\ now = QuietHorizon
    /\ RenamingExact
    /\ now' = Renamed(now)
    /\ jira' = [k \in DOMAIN jira |-> [jira[k] EXCEPT !.created = Renamed(@),
                                                      !.updated = Renamed(@)]]
    /\ fd' = [f \in DOMAIN fd |->
                 [fd[f] EXCEPT !.updated_at = Renamed(@),
                               !.conversations = RenamedConversations(@)]]
    /\ mappingFile' = RenamedEntries(mappingFile)
    /\ mapping' = RenamedEntries(mapping)
    /\ configFile' = [configFile EXCEPT !.FIRST_RUN_TIMESTAMP = Renamed(@)]
    /\ config' = [config EXCEPT !.FIRST_RUN_TIMESTAMP = Renamed(@)]
    /\ firstCutoff' = Renamed(firstCutoff)
    /\ UNCHANGED <<nextCommentId, pc, idx, jira_tickets, freshdesk_tickets, unmapped_jira,
                   fd_title_map, fd_desc_map, jira_matched_keys, fd_matched_ids, lastCalls,
                   runs, runStatus, saves, cfgSaves, faults, userEvents, createFailed,
                   mainVars>>

Elapse == QuietTick \/ Rebase

RunSteps ==
    \/ J2FStep
    \/ J2FDone
    \/ F2JStep
    \/ F2JDone
    \/ MapStart
    \/ SaveMapping
    \/ SaveConfig

QuietNext ==
    \/ QuietTick
    \/ Rebase
    \/ StartRun
    \/ J2FStep
    \/ J2FDone
    \/ F2JStep
    \/ F2JDone
    \/ MapStart
    \/ SaveMapping
    \/ SaveConfig

\* a started run goes on to its end, the scheduler starts the next one, and
\* between two runs time passes again and again
QuietSpec ==
    /\ QuietInit
    /\ [][QuietNext]_vars
    /\ WF_vars(RunSteps)
    /\ WF_vars(StartRun)
    /\ SF_vars(Elapse)

\* ------------------------------------------- a comment during a run
\* A run at tick 0 linked an issue by title to the first helpdesk ticket,
\* whose status has no transition the workflow offers (the confirming comment
\* was not stored); a user commented on the issue at tick 1 and may comment
\* once more, at any moment users can act; from then on every call is
\* served, runs keep being started, at least one per tick, and time keeps
\* passing.
BusyIssue ==
    [summary |-> Title1, description |-> ShortDoc, priority |-> "Highest", status |-> "Backlog",
     created |-> 0, updated |-> 1,
     comments |-> <<[id |-> 1, author |-> "user", body |-> CommentDoc(<<"ola">>)]>>]

BusyInit ==
    /\ now = 1
    /\ jira = <<BusyIssue>>
    /\ fd \in FdInits \ {<<>>}
    /\ nextCommentId = 2
    /\ configFile = [ENABLE_SMART_MAPPING |-> TRUE, SYNC_COMMENTS |-> TRUE,
                     FIRST_RUN_TIMESTAMP |-> NoTime]
    /\ mappingFile = SetEntry(<<>>, 1, QuietEntry)
    /\ config = configFile
    /\ mapping = mappingFile
    /\ pc = "idle"
    /\ idx = 1
    /\ jira_tickets = <<>>
    /\ freshdesk_tickets = <<>>
    /\ unmapped_jira = <<>>
    /\ fd_title_map = <<>>
    /\ fd_desc_map = <<>>
    /\ jira_matched_keys = {}
    /\ fd_matched_ids = {}
    /\ lastCalls = <<>>
    /\ runs = 0
    /\ runStatus = "ok"
    /\ saves = 0
    /\ cfgSaves = 0
    /\ firstCutoff = NoTime
    /\ createFailed = <<>>
    /\ faults = MaxFaults
    /\ userEvents = MaxUserEvents - 1
    /\ clientDirs = <<>>
    /\ clientIdx = 0
    /\ mainPc = "off"
    /\ mapping_data = <<>>
    /\ results = <<>>

BusyNext ==
    \/ UserComments
    \/ QuietTick
    \/ Rebase
    \/ StartRun
    \/ J2FStep
    \/ J2FDone
    \/ F2JStep
    \/ F2JDone
    \/ MapStart
    \/ SaveMapping
    \/ SaveConfig

\* the scheduler starts run after run and time keeps passing; that every
\* started run goes on to its end is the premise of the property
BusySpec ==
    /\ BusyInit
    /\ [][BusyNext]_vars
    /\ WF_vars(StartRun)
    /\ SF_vars(Elapse)

MainInit ==
    /\ now = 0
    /\ jira = <<>>
    /\ nextCommentId = 1
    /\ fd = <<>>
    /\ configFile = [ENABLE_SMART_MAPPING |-> TRUE, SYNC_COMMENTS |-> TRUE,
                     FIRST_RUN_TIMESTAMP |-> NoTime]
    /\ mappingFile = <<>>
    /\ config = configFile
    /\ mapping = <<>>
    /\ pc = "off"
    /\ idx = 1
    /\ jira_tickets = <<>>
    /\ freshdesk_tickets = <<>>
    /\ unmapped_jira = <<>>
    /\ fd_title_map = <<>>
    /\ fd_desc_map = <<>>
    /\ jira_matched_keys = {}
    /\ fd_matched_ids = {}
    /\ lastCalls = <<>>
    /\ runs = 0
    /\ runStatus = "none"
    /\ saves = 0
    /\ cfgSaves = 0
    /\ firstCutoff = NoTime
    /\ createFailed = <<>>
    /\ faults = 0
    /\ userEvents = 0
    /\ clientDirs \in [1..NClients -> [config : ConfigKinds, mapping : InitialMappingFiles]]
    /\ clientIdx = 1
    /\ mainPc = "load"
    /\ mapping_data = <<>>
    /\ results = <<>>

MainNext ==
    \/ LoadClientConfig
    \/ PrepareClientEnvironment
    \/ RunSyncForClient
    \/ SaveClientMapping
    \/ SaveClientConfig

MainSpec == MainInit /\ [][MainNext]_vars

\* ================================================================ claims
CountTok(text, tok) == Cardinality({i \in DOMAIN text : text[i] = tok})

\* a step of the run, as opposed to a step of the users or of the clock
EngineStep == <<pc, idx>>' # <<pc, idx>>

\* no target id in two entries of m
Injective(m) ==
    \A k1 \in DOMAIN m, k2 \in DOMAIN m :
        k1 # k2 => m[k1].freshdesk_id # m[k2].freshdesk_id

\* ---------------------------------------------------------------- C1
\* C1: in the source->target pass, a mapped issue whose fetched modification
\* time is at or before the stored source watermark (equal included) causes
\* no call at all, and its mapping entry, like the whole mapping and both
\* systems, is left as it was; the pass just moves on to the next issue, so
\* a repetition with the same fetched issue meets the same gate.
C1_StaleGate ==
    [][ ( /\ pc = "j2f"
          /\ idx \in DOMAIN jira_tickets
          /\ EngineStep
          /\ jira_tickets[idx].key \in DOMAIN mapping
          /\ mapping[jira_tickets[idx].key].last_jira_update # NoTime
          /\ jira_tickets[idx].updated <= mapping[jira_tickets[idx].key].last_jira_update )
        => ( /\ lastCalls' = <<>>
             /\ mapping' = mapping
             /\ fd' = fd
             /\ jira' = jira
             /\ pc' = "j2f"
             /\ idx' = idx + 1 ) ]_vars

\* the pass has just skipped a mapped issue modified exactly at its
\* watermark, which an earlier run wrote
C1_Witness ==
    /\ pc = "j2f"
    /\ idx > 1
    /\ idx - 1 \in DOMAIN jira_tickets
    /\ LET t == jira_tickets[idx - 1]
       IN  /\ t.key \in DOMAIN mapping
           /\ t.updated = mapping[t.key].last_jira_update
           /\ mapping[t.key].last_jira_update < now
    /\ lastCalls = <<>>

\* ---------------------------------------------------------------- C2
\* C2: whatever the engine posts, in either direction, carries the bot tag
\* once: its own header.  A tagged item reposted by the opposite propagator
\* would carry it twice, so no tagged comment of the source becomes a note of
\* the target, no tagged conversation entry of the target becomes a comment of
\* the source, and nothing the engine wrote is copied back, over any runs.
C2_LoopFree ==
    /\ \A f \in DOMAIN fd : \A i \in DOMAIN fd[f].conversations :
          fd[f].conversations[i].user = "bot"
              => CountTok(fd[f].conversations[i].body_text, TAG) = 1
    /\ \A k \in DOMAIN jira : \A i \in DOMAIN jira[k].comments :
          jira[k].comments[i].author = "bot"
              => CountTok(extract_text_from_adf(jira[k].comments[i].body), TAG) = 1
    /\ \A i \in DOMAIN lastCalls :
          lastCalls[i].api \in {"fd.add_note", "jira.add_comment"}
              => CountTok(lastCalls[i].text, TAG) = 1

\* the source->target pass has just gone through a mapped issue, all of whose
\* comments were new to it and one of which carries the tag, and posted no note
C2_Witness ==
    /\ pc = "j2f"
    /\ idx > 1
    /\ idx - 1 \in DOMAIN jira_tickets
    /\ config.SYNC_COMMENTS
    /\ lastCalls # <<>>
    /\ \A i \in DOMAIN lastCalls : lastCalls[i].api # "fd.add_note"
    /\ LET t == jira_tickets[idx - 1]
       IN  /\ t.key \in DOMAIN mapping
           /\ mapping[t.key].last_jira_comment_id = 0
           /\ \E i \in DOMAIN t.comments :
                 Contains(extract_text_from_adf(t.comments[i].body), TAG)

\* ---------------------------------------------------------------- C3
\* C3: the issues linked so far by one execution of the matcher, title pass
\* and description pass together, have pairwise different target ids, and the
\* ids claimed in the execution are exactly the ids of those links.
C3_MatchExclusive ==
    /\ jira_matched_keys \subseteq DOMAIN mapping
    /\ \A k1 \in jira_matched_keys, k2 \in jira_matched_keys :
          k1 # k2 => mapping[k1].freshdesk_id # mapping[k2].freshdesk_id
    /\ fd_matched_ids = {mapping[k].freshdesk_id : k \in jira_matched_keys}

\* one execution linked two issues of the same title and description: the
\* second met the candidate of that title already claimed and took another
C3_Witness ==
    /\ pc = "create"
    /\ Cardinality(jira_matched_keys) = 2
    /\ \A k1 \in jira_matched_keys, k2 \in jira_matched_keys :
          jira[k1].summary = jira[k2].summary

\* ---------------------------------------------------------------- C4
\* C4: from the empty mapping on, in memory and on disk, after any runs, no
\* target id appears in two mapping entries (each key has one entry, a
\* function); the matcher does not link an issue to a claimed target ticket.
C4_NoFanIn == Injective(mapping) /\ Injective(mappingFile)

\* the matcher starts its title pass on an issue whose title is the title of
\* a target ticket that an entry of an earlier run claims; the ticket is in no
\* list of the title map
C4_Witness ==
    /\ pc = "title"
    /\ idx = 1
    /\ unmapped_jira # <<>>
    /\ \E k \in DOMAIN mappingFile :
          LET f == mapping[k].freshdesk_id
          IN  /\ f \in DOMAIN fd
              /\ FdNormTitle(fd[f]) = normalize_text(unmapped_jira[1].summary)
              /\ \A t \in DOMAIN fd_title_map :
                    \A i \in DOMAIN fd_title_map[t] : fd_title_map[t][i] # f

C7_NeverCreatedBelowCutoff ==
    \A i \in DOMAIN lastCalls :
        (lastCalls[i].api = "fd.create_ticket" /\ ~config.ENABLE_SMART_MAPPING)
            => /\ config.FIRST_RUN_TIMESTAMP # NoTime
               /\ jira[lastCalls[i].target].created >= config.FIRST_RUN_TIMESTAMP

\* C7 as stated: with matching disabled and a recorded cutoff T, an issue
\* created before T, the same calendar day included, is never fetched by a
\* run and never created in the target system.
C7_NeverFetchedBelowCutoff ==
    /\ (~configFile.ENABLE_SMART_MAPPING /\ configFile.FIRST_RUN_TIMESTAMP # NoTime)
          => \A i \in DOMAIN jira_tickets :
                jira_tickets[i].created >= configFile.FIRST_RUN_TIMESTAMP
    /\ C7_NeverCreatedBelowCutoff

\* C7 amended: with matching disabled and a recorded cutoff T, an issue
\* created before T is never created in the target system, and a run fetches
\* only issues created on or after the start of the calendar day of T.
C7_CutoverLowerSide ==
    /\ (~configFile.ENABLE_SMART_MAPPING /\ configFile.FIRST_RUN_TIMESTAMP # NoTime)
          => \A i \in DOMAIN jira_tickets :
                jira_tickets[i].created >= DayStart(configFile.FIRST_RUN_TIMESTAMP)
    /\ C7_NeverCreatedBelowCutoff

\* a run that started with the cutoff recorded has fetched an issue created
\* before it, the same day, and has just passed it over without a call
C7_Witness ==
    /\ pc = "cutover"
    /\ idx > 1
    /\ idx - 1 \in DOMAIN unmapped_jira
    /\ configFile.FIRST_RUN_TIMESTAMP # NoTime
    /\ unmapped_jira[idx - 1].created < configFile.FIRST_RUN_TIMESTAMP
    /\ unmapped_jira[idx - 1].key \notin DOMAIN mapping
    /\ lastCalls = <<>>

\* ---------------------------------------------------------------- C8
\* C8 as stated: with matching disabled, the target system never holds two
\* tickets created for one issue, aborted runs included.
C8_CreatedOnce ==
    ~configFile.ENABLE_SMART_MAPPING =>
        \A k \in DOMAIN jira : Cardinality({f \in DOMAIN fd : fd[f].tag = k}) <= 1

\* ---------------------------------------------------------------- C9
\* C9 as stated: the cutoff in effect in a run, and the cutoff in the client
\* configuration, is the first cutoff a run recorded, aborted runs included.
C9_RecordedOnce ==
    /\ config.FIRST_RUN_TIMESTAMP \in {NoTime, firstCutoff}
    /\ configFile.FIRST_RUN_TIMESTAMP \in {NoTime, firstCutoff}

\* --------------------------------------------------------------- C10
\* C10: mapping.json changes only in the step of _save_mapping, which follows
\* the three phases, and only to a non-empty in-memory mapping; no write has
\* happened while the phases execute; once _save_mapping has returned, the
\* file was written once if the mapping is non-empty and not at all if it is
\* empty.
C10_SinglePersist ==
    [][ /\ mappingFile' # mappingFile =>
             /\ pc = "save"
             /\ pc' = "savecfg"
             /\ mapping # <<>>
             /\ mappingFile' = mapping
        /\ pc' \notin {"idle", "savecfg"} => saves' = 0
        /\ pc' = "savecfg" => saves' = (IF mapping' # <<>> THEN 1 ELSE 0) ]_vars

\* _save_mapping has written a non-empty mapping that differs from the file
\* the run loaded
C10_Witness ==
    /\ pc = "savecfg"
    /\ saves = 1
    /\ mappingFile = mapping
    /\ \E k \in DOMAIN mapping : mapping[k].last_jira_comment_id > 0

\* ------------------------------------------------------------------
\* C11  Failure isolation.  When an exception escapes the phases of a
\* client's run, the step that records the failure skips the persist: no
\* file of any client changes, the mapping the run held in memory is
\* dropped, and main goes on with the next client folder (or ends after the
\* last one).  No step of one client changes the files of another client.
C11_FailureIsolation ==
    [][ /\ (Len(results') > Len(results) /\ results'[Len(results')] = "failed")
           => /\ mainPc = "sync"
              /\ clientDirs' = clientDirs
              /\ mapping_data' = <<>>
              /\ clientIdx' = clientIdx + 1
              /\ mainPc' = IF clientIdx = NClients THEN "done" ELSE "load"
        /\ \A c \in 1..NClients : c # clientIdx => clientDirs'[c] = clientDirs[c]
      ]_vars

\* the first client failed in its phases, its mapping.json is a complete
\* file, and the second client was then processed to its end
C11_Witness ==
    /\ Len(results) = 2
    /\ results[1] = "failed"
    /\ results[2] = "ok"
    /\ clientDirs[1].mapping.kind = "ok"
    /\ mainPc = "done"

\* ------------------------------------------------------------------
\* C12  Atomic persist.  Through every step, the mapping.json of every
\* client is either the file it was before the step or the complete
\* in-memory mapping of the run: a write that fails never leaves an empty
\* or cut file.
C12_AtomicPersist ==
    [][ \A c \in 1..NClients :
           \/ clientDirs'[c].mapping = clientDirs[c].mapping
           \/ clientDirs'[c].mapping = MappingFile("ok", mapping_data)
      ]_vars

C15_LoadNeverFails ==
    /\ mainPc # "crashed"
    /\ mainPc = "sync" =>
          mapping_data = IF clientDirs[clientIdx].mapping.kind = "ok"
                         THEN clientDirs[clientIdx].mapping.data
                         ELSE <<>>

\* ------------------------------------------------------------------
\* C13  Per-call failures are non-fatal.  A step of a run in which an
\* external call failed, by a network error or by an undecodable response,
\* does not end the run: the run goes on to the remaining tickets and to
\* the final persist.
C13_PerCallNonFatal ==
    [][ (\E i \in DOMAIN lastCalls' : lastCalls'[i].outcome # "ok")
           => ~(runStatus' = "aborted" /\ (runStatus # "aborted" \/ runs' # runs))
      ]_vars

\* ------------------------------------------------------------------
\* C16  Creation failure is retried.  When the creation call for an
\* unmatched issue returns no ticket, the step writes no mapping entry, makes
\* no further call (no confirming comment), changes neither system and goes
\* on to the next issue of the loop.  While that run lasts and after it, no
\* entry for the issue is held or persisted; in the next run, if the issue
\* is fetched it is in the unmapped list, and the step of the creation loop
\* that reaches it makes the creation call again (unless a match has claimed
\* it or the cutover gate excludes it, as for every unmapped issue).
FetchedKeys == {jira_tickets[i].key : i \in DOMAIN jira_tickets}

UnmappedKeys == {unmapped_jira[i].key : i \in DOMAIN unmapped_jira}

CreatorReaches ==
    /\ pc \in {"create", "cutover"}
    /\ idx <= Len(unmapped_jira)
    /\ <<pc, idx>>' # <<pc, idx>>

C16_CreationRetried ==
    /\ [][ /\ (/\ CreatorReaches
               /\ lastCalls' # <<>>
               /\ lastCalls'[1].api = "fd.create_ticket"
               /\ lastCalls'[1].outcome = "none")
              => /\ Len(lastCalls') = 1
                 /\ mapping' = mapping
                 /\ unmapped_jira[idx].key \notin DOMAIN mapping'
                 /\ jira' = jira
                 /\ fd' = fd
                 /\ pc' = pc
                 /\ idx' = idx + 1
                 /\ runStatus' = runStatus
           /\ (/\ CreatorReaches
               /\ unmapped_jira[idx].key \in DOMAIN createFailed
               /\ runs > createFailed[unmapped_jira[idx].key]
               /\ pc = "create" => unmapped_jira[idx].key \notin jira_matched_keys
               /\ pc = "cutover" => unmapped_jira[idx].created >= config.FIRST_RUN_TIMESTAMP)
              => /\ lastCalls' # <<>>
                 /\ lastCalls'[1].api = "fd.create_ticket"
                 /\ lastCalls'[1].target = unmapped_jira[idx].key
         ]_vars
    /\ [](\A k \in DOMAIN createFailed :
             /\ runs = createFailed[k] => (k \notin DOMAIN mapping /\ k \notin DOMAIN mappingFile)
             /\ (/\ runs = createFailed[k] + 1
                 /\ pc \in {"title", "desc", "create", "cutover"}
                 /\ k \in FetchedKeys)
                => k \in UnmappedKeys)

\* the creation call for an issue returned no ticket in the first run; the
\* second run has made the call again, and now holds an entry for the issue
C16_Witness ==
    /\ lastCalls # <<>>
    /\ lastCalls[1].api = "fd.create_ticket"
    /\ lastCalls[1].outcome = "ok"
    /\ lastCalls[1].target \in DOMAIN createFailed
    /\ runs = createFailed[lastCalls[1].target] + 1
    /\ lastCalls[1].target \in DOMAIN mapping
    /\ pc \in {"create", "cutover"}

\* ------------------------------------------------------------------
\* C17  Bot-tag prefix.  Every note and every comment the engine writes,
\* or tries to write, begins with the bot tag: the text of every add_note
\* and add_comment call, every conversation entry the helpdesk holds from
\* the engine and every comment the tracker holds from the engine (match
\* information and creation confirmation included).
BeginsWithTag(text) == text # <<>> /\ text[1] = TAG

C17_BotTagPrefix ==
    /\ \A i \in DOMAIN lastCalls :
          lastCalls[i].api \in {"fd.add_note", "jira.add_comment"} => BeginsWithTag(lastCalls[i].text)
    /\ \A f \in DOMAIN fd : \A i \in DOMAIN fd[f].conversations :
          fd[f].conversations[i].user = "bot" => BeginsWithTag(fd[f].conversations[i].body_text)
    /\ \A k \in DOMAIN jira : \A i \in DOMAIN jira[k].comments :
          jira[k].comments[i].author = "bot"
             => BeginsWithTag(extract_text_from_adf(jira[k].comments[i].body))

\* the helpdesk holds a note propagated from a user's comment, and the
\* tracker holds the comment the engine wrote when the issue was linked or
\* created
C17_Witness ==
    /\ \E f \in DOMAIN fd : \E i \in DOMAIN fd[f].conversations :
          /\ fd[f].conversations[i].user = "bot"
          /\ Contains(fd[f].conversations[i].body_text, "**Comentario do Jira por ")
    /\ \E k \in DOMAIN jira : \E j \in DOMAIN jira[k].comments :
          /\ jira[k].comments[j].author = "bot"
          /\ ~Contains(extract_text_from_adf(jira[k].comments[j].body), " do Freshdesk por ")

\* ------------------------------------------------------------------
\* C18  Fixed phase order.  Within one run the position never goes back:
\* source->target propagation, then target->source propagation, then
\* match/create, then the saves.  Every call a step makes belongs to the
\* phase the run is in, so every source->target call precedes every
\* target->source call, which precedes every match or creation call.  While
\* a run propagates, its mapping has the keys of mapping.json and no others:
\* an issue that becomes mapped in the run gets no propagation call in it.
PhaseRank(p) ==
    CASE p = "j2f" -> 1
      [] p = "f2j" -> 2
      [] p \in {"map", "title", "desc", "create", "cutover"} -> 3
      [] p = "save" -> 4
      [] p = "savecfg" -> 5
      [] OTHER -> 0

CallPhase(c) ==
    CASE c.api \in {"fd.update_ticket_fields", "fd.add_note"} -> 1
      [] c.api \in {"fd.conversations", "jira.get_transitions", "jira.transition"} -> 2
      [] c.api = "jira.add_comment" -> IF Contains(c.text, " do Freshdesk por ") THEN 2 ELSE 3
      [] c.api \in {"fd.list", "fd.create_ticket"} -> 3
      [] OTHER -> 0

C18_FixedPhaseOrder ==
    /\ [][ /\ (pc # "idle" /\ pc' # "idle") => PhaseRank(pc') >= PhaseRank(pc)
           /\ (pc # "idle" /\ lastCalls' # lastCalls)
                 => \A i \in DOMAIN lastCalls' : CallPhase(lastCalls'[i]) = PhaseRank(pc)
         ]_vars
    /\ [](pc \in {"j2f", "f2j"} => DOMAIN mapping = DOMAIN mappingFile)

\* a run has passed both propagation phases and created a ticket for an
\* issue that carries a user's comment without the tag: the issue has its
\* entry, and the comment has not been propagated to the new ticket
C18_Witness ==
    /\ pc \in {"create", "cutover"}
    /\ config.SYNC_COMMENTS
    /\ lastCalls # <<>>
    /\ lastCalls[1].api = "fd.create_ticket"
    /\ lastCalls[1].outcome = "ok"
    /\ LET k == lastCalls[1].target
       IN  /\ k \in DOMAIN mapping \ DOMAIN mappingFile
           /\ \E i \in DOMAIN jira[k].comments :
                 /\ jira[k].comments[i].author # "bot"
                 /\ ~Contains(extract_text_from_adf(jira[k].comments[i].body), TAG)
           /\ fd[mapping[k].freshdesk_id].conversations = <<>>

\* ------------------------------------------------------------------
\* C19  No automatic deletion.  A key that mapping.json holds stays in
\* mapping.json, with the same freshdesk_id, through every step of every
\* client's run; and while a run holds the loaded mapping in memory, every
\* key of mapping.json is in it with the same freshdesk_id.
PersistedMapping(c) == IF clientDirs[c].mapping.kind = "ok" THEN clientDirs[c].mapping.data ELSE <<>>

C19_NoAutomaticDeletion ==
    /\ [][ \A c \in 1..NClients : \A k \in DOMAIN PersistedMapping(c) :
              /\ clientDirs'[c].mapping.kind = "ok"
              /\ k \in DOMAIN clientDirs'[c].mapping.data
              /\ clientDirs'[c].mapping.data[k].freshdesk_id = PersistedMapping(c)[k].freshdesk_id
         ]_vars
    /\ [](mainPc \in {"sync", "save", "savecfg"}
             => \A k \in DOMAIN PersistedMapping(clientIdx) :
                   /\ k \in DOMAIN mapping_data
                   /\ mapping_data[k].freshdesk_id = PersistedMapping(clientIdx)[k].freshdesk_id)

\* ------------------------------------------------------------------
\* C20  Creator translation.  A step that creates a ticket for an unmatched
\* issue makes one creation call; the ticket the helpdesk stores has the
\* priority code and the status code the tables give for the issue's
\* priority and status names, and 1 (lowest priority) and 2 (open) for a
\* name the tables do not have, the empty name of an absent priority
\* included; "Highest" gives 4 and "Backlog" gives 2.  The step writes an
\* entry for the issue with the new ticket's id and comment number 0.
CreationCalls(calls) == SelectSeq(calls, LAMBDA c : c.api = "fd.create_ticket")

OutsideTables == {"", "high", "Aberto", "Blocker"}

C20_CreatorTranslation ==
    /\ [][ (/\ CreatorReaches
            /\ lastCalls' # <<>>
            /\ lastCalls'[1].api = "fd.create_ticket"
            /\ lastCalls'[1].outcome = "ok")
           => LET t == unmapped_jira[idx]
                  new == fd'[Len(fd')]
              IN  /\ Len(CreationCalls(lastCalls')) = 1
                  /\ lastCalls'[1].target = t.key
                  /\ Len(fd') = Len(fd) + 1
                  /\ new.tag = t.key
                  /\ new.priority = IF t.priority \in DOMAIN JIRA_PRIORITY_TO_FRESHDESK
                                    THEN JIRA_PRIORITY_TO_FRESHDESK[t.priority] ELSE 1
                  /\ new.status = IF t.status \in DOMAIN JIRA_STATUS_TO_FRESHDESK
                                  THEN JIRA_STATUS_TO_FRESHDESK[t.status] ELSE 2
                  /\ t.priority = "Highest" => new.priority = 4
                  /\ t.status = "Backlog" => new.status = 2
                  /\ t.key \notin DOMAIN mapping
                  /\ mapping'[t.key].freshdesk_id = Len(fd')
                  /\ mapping'[t.key].last_jira_comment_id = 0
         ]_vars
    /\ [](\A p \in OutsideTables \cup {"Highest"}, st \in OutsideTables \cup {"Backlog"} :
             LET new == CreatedTicket([key |-> 1, summary |-> Title1, priority |-> p, status |-> st],
                                      Placeholder)
             IN  /\ new.priority = IF p = "Highest" THEN 4 ELSE 1
                 /\ new.status = 2)

\* one run has created a ticket for an issue with priority "Highest" and
\* status "Backlog", stored with the codes 4 and 2, and then one for an issue
\* whose names the tables do not have, stored with the codes 1 and 2; both
\* issues have entries with comment number 0
C20_Witness ==
    /\ pc \in {"create", "cutover"}
    /\ lastCalls # <<>>
    /\ lastCalls[1].api = "fd.create_ticket"
    /\ lastCalls[1].outcome = "ok"
    /\ \E k1, k2 \in DOMAIN mapping \ DOMAIN mappingFile :
          /\ jira[k1].priority = "Highest" /\ jira[k1].status = "Backlog"
          /\ fd[mapping[k1].freshdesk_id].tag = k1
          /\ fd[mapping[k1].freshdesk_id].priority = 4
          /\ fd[mapping[k1].freshdesk_id].status = 2
          /\ jira[k2].priority = "high" /\ jira[k2].status = "Aberto"
          /\ lastCalls[1].target = k2
          /\ fd[mapping[k2].freshdesk_id].tag = k2
          /\ fd[mapping[k2].freshdesk_id].priority = 1
          /\ fd[mapping[k2].freshdesk_id].status = 2
          /\ mapping[k1].last_jira_comment_id = 0
          /\ mapping[k2].last_jira_comment_id = 0

\* ------------------------------------------------------------------
\* C21  Target->source staleness gate.  In the target->source pass, a
\* fetched helpdesk ticket that no mapping entry claims, and a fetched
\* ticket that is mapped and whose modification time is at or before the
\* stored target watermark (equal included), cause no call at all: no
\* transition, no read of conversation entries, no comment; the mapping and
\* both systems are left as they were and the pass moves on.
ClaimingKeys(fd_id) == {k \in DOMAIN mapping : mapping[k].freshdesk_id = fd_id}

F2JReaches ==
    /\ pc = "f2j"
    /\ idx \in DOMAIN freshdesk_tickets
    /\ EngineStep

C21_TargetStaleGate ==
    [][ ( /\ F2JReaches
          /\ \/ ClaimingKeys(freshdesk_tickets[idx].id) = {}
             \/ \A k \in ClaimingKeys(freshdesk_tickets[idx].id) :
                   /\ mapping[k].last_freshdesk_update # NoTime
                   /\ freshdesk_tickets[idx].updated_at <= mapping[k].last_freshdesk_update )
        => ( /\ lastCalls' = <<>>
             /\ mapping' = mapping
             /\ jira' = jira
             /\ fd' = fd
             /\ pc' = "f2j"
             /\ idx' = idx + 1 ) ]_vars

\* the pass has just skipped two fetched tickets: one that no entry claims,
\* and a mapped one modified exactly at its target watermark
C21_Witness ==
    /\ pc = "f2j"
    /\ idx = 3
    /\ Len(freshdesk_tickets) >= 2
    /\ lastCalls = <<>>
    /\ \E i, j \in 1..2 :
          /\ ClaimingKeys(freshdesk_tickets[i].id) = {}
          /\ \E k \in ClaimingKeys(freshdesk_tickets[j].id) :
                freshdesk_tickets[j].updated_at = mapping[k].last_freshdesk_update

\* ------------------------------------------------------------------
\* C22  Watermark advance is unconditional on call success.  A step of a
\* propagation pass on a mapped ticket that passes the staleness gate ends
\* with that direction's watermark of the entry at the current time,
\* whether the calls of the step succeeded or failed.
J2FReaches ==
    /\ pc = "j2f"
    /\ idx \in DOMAIN jira_tickets
    /\ EngineStep

C22_WatermarkUnconditional ==
    [][ /\ ( /\ J2FReaches
             /\ jira_tickets[idx].key \in DOMAIN mapping
             /\ jira_tickets[idx].updated > mapping[jira_tickets[idx].key].last_jira_update )
           => mapping'[jira_tickets[idx].key].last_jira_update = now
        /\ ( /\ F2JReaches
             /\ ClaimingKeys(freshdesk_tickets[idx].id) # {}
             /\ \A k \in ClaimingKeys(freshdesk_tickets[idx].id) :
                   freshdesk_tickets[idx].updated_at > mapping[k].last_freshdesk_update )
           => \A k \in ClaimingKeys(freshdesk_tickets[idx].id) :
                 mapping'[k].last_freshdesk_update = now
      ]_vars

\* ------------------------------------------------------------------
\* C23  Ordered transition fallback.  For a mapped helpdesk ticket that
\* passes the gate and whose status code has a candidate list, the step
\* asks for the candidates in list order, each at most once and none
\* skipped; every candidate asked for before the last one was not applied;
\* a transition is applied at most once, for the candidate asked for last,
\* which the issue exposes; and the step stops asking only when a
\* transition was applied, the list is exhausted or the run is aborted.
GetCalls(calls) == SelectSeq(calls, LAMBDA c : c.api = "jira.get_transitions")

AppliedCalls(calls) == SelectSeq(calls, LAMBDA c : c.api = "jira.transition" /\ c.outcome = "ok")

Exposes(name) == \E i \in DOMAIN JiraWorkflow : LowerName(JiraWorkflow[i]) = LowerName(name)

\* position in calls of the n-th jira.get_transitions call
RECURSIVE GetPosition(_, _, _)
GetPosition(calls, n, from) ==
    IF calls[from].api = "jira.get_transitions"
    THEN (IF n = 1 THEN from ELSE GetPosition(calls, n - 1, from + 1))
    ELSE GetPosition(calls, n, from + 1)

F2JPasses ==
    /\ F2JReaches
    /\ ClaimingKeys(freshdesk_tickets[idx].id) # {}
    /\ \A k \in ClaimingKeys(freshdesk_tickets[idx].id) :
          freshdesk_tickets[idx].updated_at > mapping[k].last_freshdesk_update

PostFollows(calls, i) ==
    /\ i + 1 \in DOMAIN calls
    /\ calls[i + 1].api = "jira.transition"

C24_ExactNameAcceptance ==
    [][ F2JPasses
        => \A i \in DOMAIN lastCalls' :
              (lastCalls'[i].api = "jira.get_transitions" /\ PostFollows(lastCalls', i))
                 => /\ \E j \in DOMAIN JiraWorkflow : JiraWorkflow[j] = lastCalls'[i].text[1]
                    /\ lastCalls'[i + 1].text = lastCalls'[i].text
      ]_vars

\* C24 (amended)  Acceptance by name, ignoring letter case.  After the
\* transitions of the issue were read for a candidate, a transition is
\* posted exactly when the issue exposes a transition whose name equals the
\* candidate name ignoring letter case, and the transition posted is the
\* first exposed one of that name; a candidate that differs from every
\* exposed name in more than letter case is rejected and nothing is posted
\* for it.
SameIgnoringCase(a, b) == LowerName(a) = LowerName(b)

C24_CaseInsensitiveAcceptance ==
    [][ F2JPasses
        => \A i \in DOMAIN lastCalls' :
              (lastCalls'[i].api = "jira.get_transitions" /\ lastCalls'[i].outcome = "ok")
                 => LET cand == lastCalls'[i].text[1]
                        same == {j \in DOMAIN JiraWorkflow : SameIgnoringCase(JiraWorkflow[j], cand)}
                    IN  /\ PostFollows(lastCalls', i) <=> same # {}
                        /\ PostFollows(lastCalls', i)
                              => /\ lastCalls'[i + 1].text[1] \in {JiraWorkflow[j] : j \in same}
                                 /\ \A j \in same :
                                       JiraWorkflow[j] = lastCalls'[i + 1].text[1]
                                          \/ \E h \in same : h < j
      ]_vars

\* the candidate "To Do" was accepted and the transition "to do" applied:
\* the names differ in letter case only; "Backlog" was rejected before it
C24_Witness ==
    /\ pc = "f2j"
    /\ \E i \in DOMAIN lastCalls :
          /\ lastCalls[i].api = "jira.get_transitions"
          /\ PostFollows(lastCalls, i)
          /\ lastCalls[i + 1].outcome = "ok"
          /\ lastCalls[i + 1].text # lastCalls[i].text
          /\ SameIgnoringCase(lastCalls[i + 1].text[1], lastCalls[i].text[1])
          /\ jira[lastCalls[i + 1].target].status = lastCalls[i + 1].text[1]
    /\ \E i \in DOMAIN lastCalls :
          /\ lastCalls[i].api = "jira.get_transitions"
          /\ lastCalls[i].outcome = "ok"
          /\ ~PostFollows(lastCalls, i)

\* ------------------------------------------------------------------
\* C25  Status-sync failure does not block the rest.  For a mapped
\* helpdesk ticket that passes the gate and whose status code has no
\* candidate list, or whose candidates the issue does not expose, the step
\* posts no transition and the issue keeps its status; unless a call of the
\* step met a network error, the step still reads the conversation entries
\* (comment sync enabled), posts a comment for each entry newer than the
\* watermark and without the tag, sets the target watermark to the current
\* time and goes on to the next ticket.
CallsOf(calls, api) == SelectSeq(calls, LAMBDA c : c.api = api)

Raised(calls) == \E i \in DOMAIN calls : calls[i].outcome = "raise"

\* the conversation entries of a ticket that are newer than a watermark and
\* do not hold the tag
NewerUntagged(fd_id, watermark) ==
    SelectSeq(fd[fd_id].conversations,
              LAMBDA c : c.updated_at > watermark /\ \A i \in DOMAIN c.body_text : c.body_text[i] # TAG)

NoTransitionPossible(status) ==
    \/ status \notin DOMAIN DEFAULT_FRESHDESK_TO_JIRA_TRANSITION_MAP
    \/ \A i \in DOMAIN DEFAULT_FRESHDESK_TO_JIRA_TRANSITION_MAP[status] :
          ~Exposes(DEFAULT_FRESHDESK_TO_JIRA_TRANSITION_MAP[status][i])

C25_StatusFailureDoesNotBlock ==
    [][ (F2JPasses /\ NoTransitionPossible(freshdesk_tickets[idx].status))
        => LET t == freshdesk_tickets[idx]
               key == CHOOSE k \in ClaimingKeys(t.id) : TRUE
               reads == CallsOf(lastCalls', "fd.conversations")
               posts == CallsOf(lastCalls', "jira.add_comment")
           IN  /\ CallsOf(lastCalls', "jira.transition") = <<>>
               /\ jira'[key].status = jira[key].status
               /\ t.status \notin DOMAIN DEFAULT_FRESHDESK_TO_JIRA_TRANSITION_MAP
                     => CallsOf(lastCalls', "jira.get_transitions") = <<>>
               /\ ~Raised(lastCalls')
                     => /\ runStatus' # "aborted"
                        /\ pc' = "f2j"
                        /\ idx' = idx + 1
                        /\ mapping'[key].last_freshdesk_update = now
                        /\ Len(reads) = IF config.SYNC_COMMENTS THEN 1 ELSE 0
                        /\ (reads # <<>> /\ reads[1].outcome = "ok")
                              => Len(posts) = Len(NewerUntagged(t.id, mapping[key].last_freshdesk_update))
      ]_vars

\* the step has asked for the three candidates of status 3, none of which
\* the issue exposes, and has then posted the agent's reply as a comment
\* and set the watermark
C25_Witness ==
    /\ pc = "f2j"
    /\ idx > 1
    /\ idx - 1 \in DOMAIN freshdesk_tickets
    /\ freshdesk_tickets[idx - 1].status = 3
    /\ Len(CallsOf(lastCalls, "jira.get_transitions")) = 3
    /\ CallsOf(lastCalls, "jira.transition") = <<>>
    /\ \E i \in DOMAIN lastCalls :
          /\ lastCalls[i].api = "jira.add_comment"
          /\ lastCalls[i].outcome = "ok"
          /\ lastCalls[i].target \in DOMAIN mapping
          /\ mapping[lastCalls[i].target].freshdesk_id = freshdesk_tickets[idx - 1].id
          /\ mapping[lastCalls[i].target].last_freshdesk_update = now

\* ------------------------------------------------------------------
\* C26  Source->target comment selection.  After a step of the
\* source->target pass on a mapped issue that passed the gate, with comment
\* sync enabled, the stored comment number equals the largest comment id of
\* the issue if that is larger than before, otherwise it is unchanged.
\* (Statement as claimed; the code advances the number only over the
\* comments for which it made a note call, not over comments with the tag.)
J2FPasses ==
    /\ J2FReaches
    /\ jira_tickets[idx].key \in DOMAIN mapping
    /\ jira_tickets[idx].updated > mapping[jira_tickets[idx].key].last_jira_update

IdsOf(comments) == {comments[i].id : i \in DOMAIN comments}

MaxOf(S, floor) == IF S = {} THEN floor ELSE Max(floor, CHOOSE x \in S : \A y \in S : y <= x)

Selected(t, stored) ==
    {t.comments[i].id : i \in {j \in DOMAIN t.comments :
          /\ t.comments[j].id > stored
          /\ \A h \in DOMAIN extract_text_from_adf(t.comments[j].body) :
                extract_text_from_adf(t.comments[j].body)[h] # TAG}}

Labelled(c) ==
    <<TAG, NL, "**">>
        \o (IF c.private THEN <<"Nota Privada">> ELSE <<"Resposta Publica">>)
        \o <<" do Freshdesk por ", c.user, ":**", NL, NL>> \o c.body_text

C27_TargetCommentSelection ==
    [][ (F2JPasses /\ config.SYNC_COMMENTS)
        => LET t == freshdesk_tickets[idx]
               key == CHOOSE k \in ClaimingKeys(t.id) : TRUE
               reads == CallsOf(lastCalls', "fd.conversations")
               posts == CallsOf(lastCalls', "jira.add_comment")
               expected == NewerUntagged(t.id, mapping[key].last_freshdesk_update)
           IN  /\ Len(reads) <= 1
               /\ (reads = <<>> \/ reads[1].outcome # "ok") => posts = <<>>
               /\ Len(posts) <= Len(expected)
               /\ \A i \in DOMAIN posts :
                     /\ posts[i].target = key
                     /\ posts[i].text = Labelled(expected[i])
               /\ (reads # <<>> /\ reads[1].outcome = "ok" /\ ~Raised(lastCalls'))
                     => Len(posts) = Len(expected)
               /\ \A i \in DOMAIN posts :
                     posts[i].outcome = "ok"
                        => \E j \in DOMAIN jira'[key].comments :
                              /\ extract_text_from_adf(jira'[key].comments[j].body) = posts[i].text
                              /\ \A h \in DOMAIN jira[key].comments :
                                    jira[key].comments[h].id # jira'[key].comments[j].id
      ]_vars

\* the step has posted an agent's private note, not tagged and newer than
\* the watermark, as a comment labelled "Nota Privada" on the mapped issue
C27_Witness ==
    /\ pc = "f2j"
    /\ idx > 1
    /\ idx - 1 \in DOMAIN freshdesk_tickets
    /\ \E i \in DOMAIN lastCalls :
          /\ lastCalls[i].api = "jira.add_comment"
          /\ lastCalls[i].outcome = "ok"
          /\ lastCalls[i].target \in DOMAIN mapping
          /\ mapping[lastCalls[i].target].freshdesk_id = freshdesk_tickets[idx - 1].id
          /\ \E c \in {fd[freshdesk_tickets[idx - 1].id].conversations[j] :
                         j \in DOMAIN fd[freshdesk_tickets[idx - 1].id].conversations} :
                /\ c.private
                /\ c.updated_at > mappingFile[lastCalls[i].target].last_freshdesk_update
                /\ lastCalls[i].text = Labelled(c)
                /\ \E j \in DOMAIN jira[lastCalls[i].target].comments :
                      extract_text_from_adf(jira[lastCalls[i].target].comments[j].body)
                         = Labelled(c)

Unclaimed == {f \in DOMAIN fd : \A k \in DOMAIN mapping : mapping[k].freshdesk_id # f}

InFetchOrder(sub, all) ==
    sub = SelectSeq(all, LAMBDA t : \E i \in DOMAIN sub : sub[i].key = t.key)

C29_TitlePass ==
    [][ (pc = "title" /\ idx <= Len(unmapped_jira))
        => LET t == unmapped_jira[idx]
               norm_title == normalize_text(t.summary)
               same == {f \in Unclaimed : /\ norm_title # <<>>
                                          /\ normalize_text(fd[f].subject) = norm_title}
           IN  /\ InFetchOrder(unmapped_jira, jira_tickets)
               /\ t.key \notin DOMAIN mapping
               /\ unmapped_jira' = unmapped_jira \/ runStatus' = "aborted"
               /\ runStatus' # "aborted" => pc' = "title" /\ idx' = idx + 1
               /\ IF same # {}
                  THEN LET first == CHOOSE f \in same : \A g \in same : f <= g
                       IN  /\ DOMAIN mapping' = DOMAIN mapping \cup {t.key}
                           /\ mapping'[t.key].freshdesk_id = first
                           /\ \A k \in DOMAIN mapping : mapping'[k] = mapping[k]
                           /\ Len(lastCalls') = 1
                           /\ lastCalls'[1].api = "jira.add_comment"
                           /\ lastCalls'[1].target = t.key
                           /\ lastCalls'[1].text = MatchComment(first, "titulo")
                  ELSE /\ mapping' = mapping
                       /\ lastCalls' = <<>>
      ]_vars

\* two issues of the same title and two free candidates whose subjects
\* normalize to that title: the pass has linked the first issue to the first
\* candidate and the second issue to the second
C29_Witness ==
    /\ pc = "title"
    /\ idx = 3
    /\ Len(unmapped_jira) = 2
    /\ normalize_text(unmapped_jira[1].summary) = normalize_text(unmapped_jira[2].summary)
    /\ fd[1].subject # fd[2].subject
    /\ normalize_text(fd[1].subject) = normalize_text(fd[2].subject)
    /\ unmapped_jira[1].key \in DOMAIN mapping
    /\ unmapped_jira[2].key \in DOMAIN mapping
    /\ mapping[unmapped_jira[1].key].freshdesk_id = 1
    /\ mapping[unmapped_jira[2].key].freshdesk_id = 2
    /\ lastCalls # <<>>
    /\ lastCalls[1].text = MatchComment(2, "titulo")

\* ------------------------------------------------------------------
\* C30  Description pass.  The description pass begins only when the title
\* pass has gone through all unmapped issues and never returns to it.  An
\* issue linked in the title pass is left alone.  Any other issue is
\* linked, with one comment naming the match by description, exactly when
\* its normalized description is longer than 20 characters and equals the
\* normalized, tag-stripped description of a candidate that no mapping
\* entry claims (entries written earlier in this run included); the
\* candidate taken is the earliest such in fetch order.  A description of
\* normalized length 20 or less produces no link, whatever the candidates.
SameDescription(t) ==
    LET norm_desc == normalize_text(extract_description(t))
    IN  {f \in Unclaimed : /\ Len(norm_desc) > 20
                           /\ normalize_text(strip_html_tags(fd[f].description_text)) = norm_desc}

C30_DescriptionPass ==
    [][ /\ (pc' = "desc" /\ pc # "desc") => (pc = "title" /\ idx > Len(unmapped_jira))
        /\ (pc = "desc" => pc' # "title")
        /\ (pc = "desc" /\ idx <= Len(unmapped_jira))
           => LET t == unmapped_jira[idx]
                  same == SameDescription(t)
              IN  /\ runStatus' # "aborted" => pc' = "desc" /\ idx' = idx + 1
                  /\ IF t.key \notin DOMAIN mapping /\ same # {}
                     THEN LET first == CHOOSE f \in same : \A g \in same : f <= g
                          IN  /\ DOMAIN mapping' = DOMAIN mapping \cup {t.key}
                              /\ mapping'[t.key].freshdesk_id = first
                              /\ \A k \in DOMAIN mapping : mapping'[k] = mapping[k]
                              /\ Len(lastCalls') = 1
                              /\ lastCalls'[1].api = "jira.add_comment"
                              /\ lastCalls'[1].target = t.key
                              /\ lastCalls'[1].text = MatchComment(first, "descricao")
                     ELSE /\ mapping' = mapping
                          /\ lastCalls' = <<>>
      ]_vars

\* the title pass linked the first issue to candidate 1; the description
\* pass has left that issue alone and has linked the second issue, of
\* another title, to candidate 2, which has the same long description as
\* the claimed candidate 1
C30_Witness ==
    /\ pc = "desc"
    /\ idx = 3
    /\ Len(unmapped_jira) = 2
    /\ unmapped_jira[1].key \in DOMAIN mapping
    /\ unmapped_jira[2].key \in DOMAIN mapping
    /\ mapping[unmapped_jira[1].key].freshdesk_id = 1
    /\ mapping[unmapped_jira[2].key].freshdesk_id = 2
    /\ normalize_text(unmapped_jira[2].summary) # normalize_text(fd[2].subject)
    /\ fd[1].description_text = fd[2].description_text
    /\ Len(normalize_text(extract_description(unmapped_jira[2]))) > 20
    /\ lastCalls # <<>>
    /\ lastCalls[1].text = MatchComment(2, "descricao")

\* the description pass has passed an issue whose description, of more than
\* 20 characters, normalizes to the same 20 characters as the description of
\* an unclaimed candidate, and has not linked it
C30_AtTheFloor ==
    /\ pc = "desc"
    /\ idx = 3
    /\ Len(unmapped_jira) = 2
    /\ unmapped_jira[2].key \notin DOMAIN mapping
    /\ 2 \in Unclaimed
    /\ Len(extract_description(unmapped_jira[2])) > 20
    /\ Len(normalize_text(extract_description(unmapped_jira[2]))) = 20
    /\ normalize_text(strip_html_tags(fd[2].description_text))
          = normalize_text(extract_description(unmapped_jira[2]))

\* ------------------------------------------------------------------
\* C31  Complete hand-off to the creator.  With matching enabled, the issues
\* the match/create phase works on are exactly the fetched issues without a
\* mapping entry, in fetch order.  The creation loop visits each of them
\* once: an issue the matcher linked receives no creation call and keeps its
\* entry, any other issue receives exactly one creation call.  So at the end
\* of the phase every such issue has been linked or has received its one
\* creation call (which stored a ticket carrying the issue's key, or returned
\* no ticket); when the candidate fetch returns no ticket the matcher links
\* nothing and every unmapped issue receives a creation call.
HandedOff(i) ==
    LET k == unmapped_jira[i].key
    IN  \/ k \in jira_matched_keys /\ k \in DOMAIN mapping
        \/ /\ k \notin jira_matched_keys
           /\ \/ /\ k \in DOMAIN mapping
                 /\ mapping[k].freshdesk_id \in DOMAIN fd
                 /\ fd[mapping[k].freshdesk_id].tag = k
              \/ k \in DOMAIN createFailed /\ createFailed[k] = runs

C31_CompleteHandOff ==
    /\ [][ (pc = "create" /\ idx <= Len(unmapped_jira))
           => LET t == unmapped_jira[idx]
                  creations == CreationCalls(lastCalls')
              IN  /\ runStatus' # "aborted" => pc' = "create" /\ idx' = idx + 1
                  /\ IF t.key \in DOMAIN mapping
                     THEN /\ lastCalls' = <<>>
                          /\ mapping' = mapping
                          /\ fd' = fd
                     ELSE /\ Len(creations) = 1
                          /\ lastCalls'[1] = creations[1]
                          /\ creations[1].target = t.key
         ]_vars
    /\ [][ (pc # "create" /\ pc' = "create")
           => /\ config.ENABLE_SMART_MAPPING
              /\ idx' = 1
              /\ (pc = "map" => jira_matched_keys' = {} /\ mapping' = mapping)
         ]_vars
    /\ [](pc = "create"
          => /\ unmapped_jira = SelectSeq(jira_tickets, LAMBDA t : t.key \notin DOMAIN mappingFile)
             /\ jira_matched_keys \subseteq UnmappedKeys
             /\ \A i \in DOMAIN unmapped_jira : i < idx => HandedOff(i))

\* the end of the phase for two fetched issues without an entry: the matcher
\* linked the first, and the second received a creation call that stored a
\* new ticket
C31_Witness ==
    /\ pc = "create"
    /\ idx > Len(unmapped_jira)
    /\ Len(unmapped_jira) = 2
    /\ unmapped_jira[1].key \in jira_matched_keys
    /\ unmapped_jira[2].key \notin jira_matched_keys
    /\ unmapped_jira[2].key \in DOMAIN mapping
    /\ fd[mapping[unmapped_jira[2].key].freshdesk_id].tag = unmapped_jira[2].key
    /\ fd[mapping[unmapped_jira[1].key].freshdesk_id].tag = NoTicket
    /\ lastCalls # <<>>
    /\ lastCalls[1].api = "fd.create_ticket"

\* the end of the phase of a run whose candidate fetch returned no ticket:
\* both issues received a creation call
C31_NoCandidates ==
    /\ pc = "create"
    /\ idx > Len(unmapped_jira)
    /\ Len(unmapped_jira) = 2
    /\ jira_matched_keys = {}
    /\ \A i \in 1..2 : fd[mapping[unmapped_jira[i].key].freshdesk_id].tag = unmapped_jira[i].key

\* ------------------------------------------------------------------
\* C32  New-entry initial state.  A step writes at most one new mapping
\* entry, and only in the matcher passes or in a creation whose call
\* returned a ticket.  The entry has comment number 0 and both watermarks
\* equal to the time of the step, and the step makes exactly one comment
\* call, on the issue of the entry: a text that begins with the bot tag and
\* names the helpdesk ticket's id, with the match type (title or
\* description) for a match, and the id of the ticket just stored for a
\* creation.
NewKeys == DOMAIN mapping' \ DOMAIN mapping

C32_NewEntryInitialState ==
    [][ /\ \A k, j \in NewKeys : k = j
        /\ \A k \in NewKeys :
              LET e == mapping'[k]
                  comments == CallsOf(lastCalls', "jira.add_comment")
              IN  /\ pc \in {"title", "desc", "create", "cutover"}
                  /\ idx <= Len(unmapped_jira)
                  /\ unmapped_jira[idx].key = k
                  /\ e.last_jira_comment_id = 0
                  /\ e.last_jira_update = now
                  /\ e.last_freshdesk_update = now
                  /\ e.last_jira_update = e.last_freshdesk_update
                  /\ Len(comments) = 1
                  /\ comments[1].target = k
                  /\ Head(comments[1].text) = TAG
                  /\ Contains(comments[1].text, ToString(e.freshdesk_id))
                  /\ pc = "title" => Contains(comments[1].text, "titulo")
                  /\ pc = "desc" => Contains(comments[1].text, "descricao")
                  /\ pc \in {"title", "desc"}
                        => /\ Len(lastCalls') = 1
                           /\ e.freshdesk_id \in DOMAIN fd
                           /\ fd' = fd
                  /\ pc \in {"create", "cutover"}
                        => /\ Len(lastCalls') = 2
                           /\ lastCalls'[1].api = "fd.create_ticket"
                           /\ lastCalls'[1].outcome = "ok"
                           /\ lastCalls'[2] = comments[1]
                           /\ e.freshdesk_id \notin DOMAIN fd
                           /\ e.freshdesk_id \in DOMAIN fd'
                  /\ comments[1].outcome = "ok"
                        => LET cs == jira'[k].comments
                           IN  /\ Len(cs) = Len(jira[k].comments) + 1
                               /\ extract_text_from_adf(cs[Len(cs)].body) = comments[1].text
      ]_vars

\* a creation has just stored ticket 3 for an issue that already carries a
\* user's comment: the entry has comment number 0 and both watermarks at the
\* current time, and the issue's newest comment is the tagged text naming 3
C32_Witness ==
    /\ pc \in {"create", "cutover"}
    /\ Len(lastCalls) = 2
    /\ lastCalls[1].api = "fd.create_ticket"
    /\ lastCalls[2].outcome = "ok"
    /\ LET k == lastCalls[2].target
       IN  /\ k \in DOMAIN mapping
           /\ k \notin DOMAIN mappingFile
           /\ mapping[k] = [freshdesk_id |-> 3, last_jira_update |-> now,
                            last_freshdesk_update |-> now, last_jira_comment_id |-> 0]
           /\ Len(jira[k].comments) = 2
           /\ jira[k].comments[1].author = "user"
           /\ extract_text_from_adf(jira[k].comments[2].body) = CreatedComment(3)

\* ------------------------------------------------------------------
\* C33  Case-insensitive translation.  A priority name that differs from a
\* name of the table only in letter case is translated to that name's code:
\* the creator stores the new ticket with it, and the source->target pass
\* pushes it.
\* (Statement as claimed; the code looks the name up as it is written.)
CaseVariants == {"high", "HIGH", "highest", "HIGHEST", "backlog", "BACKLOG",
                 "done", "DONE", "to do", "TO DO"}

CreationServed ==
    /\ CreatorReaches
    /\ lastCalls' # <<>>
    /\ lastCalls'[1].api = "fd.create_ticket"
    /\ lastCalls'[1].outcome = "ok"

C33_CaseInsensitiveTranslation ==
    [][ /\ CreationServed
           => LET t == unmapped_jira[idx]
              IN  CanonicalName(t.priority) \in DOMAIN JIRA_PRIORITY_TO_FRESHDESK
                     => fd'[Len(fd')].priority = JIRA_PRIORITY_TO_FRESHDESK[CanonicalName(t.priority)]
        /\ J2FPasses
           => LET t == jira_tickets[idx]
                  pushes == CallsOf(lastCalls', "fd.update_ticket_fields")
              IN  CanonicalName(t.priority) \in DOMAIN JIRA_PRIORITY_TO_FRESHDESK
                     => /\ Len(pushes) = 1
                        /\ pushes[1].code = JIRA_PRIORITY_TO_FRESHDESK[CanonicalName(t.priority)]
      ]_vars

\* C33 (amended)  The translation is case-sensitive.  Only a name written
\* exactly as in the table yields the table's code.  For a name that differs
\* from a table name in letter case the creator stores the default codes
\* (priority 1, status 2) and the source->target pass pushes no field
\* update, as for any name the table does not have.
C33_CaseSensitiveTranslation ==
    /\ [][ /\ CreationServed
              => LET t == unmapped_jira[idx]
                     new == fd'[Len(fd')]
                 IN  /\ t.priority \in CaseVariants => new.priority = 1
                     /\ t.status \in CaseVariants => new.status = 2
                     /\ t.priority \in DOMAIN JIRA_PRIORITY_TO_FRESHDESK
                           => new.priority = JIRA_PRIORITY_TO_FRESHDESK[t.priority]
                     /\ t.status \in DOMAIN JIRA_STATUS_TO_FRESHDESK
                           => new.status = JIRA_STATUS_TO_FRESHDESK[t.status]
           /\ J2FPasses
              => LET t == jira_tickets[idx]
                     pushes == CallsOf(lastCalls', "fd.update_ticket_fields")
                 IN  /\ t.priority \in CaseVariants => pushes = <<>>
                     /\ t.priority \in DOMAIN JIRA_PRIORITY_TO_FRESHDESK
                           => /\ Len(pushes) = 1
                              /\ pushes[1].code = JIRA_PRIORITY_TO_FRESHDESK[t.priority]
         ]_vars
    /\ [](\A v \in CaseVariants :
             LET t == [key |-> 1, summary |-> Title1, priority |-> v, status |-> v,
                       comments |-> <<>>]
                 new == CreatedTicket(t, Placeholder)
                 calls == J2FIntents(NewEntry(1), t, config)
             IN  /\ v \notin DOMAIN JIRA_PRIORITY_TO_FRESHDESK
                 /\ v \notin DOMAIN JIRA_STATUS_TO_FRESHDESK
                 /\ CanonicalName(v) \in DOMAIN JIRA_PRIORITY_TO_FRESHDESK
                                           \cup DOMAIN JIRA_STATUS_TO_FRESHDESK
                 /\ new.priority = 1
                 /\ new.status = 2
                 /\ CallsOf(calls, "fd.update_ticket_fields") = <<>>)

\* the creator has stored a ticket of priority 1 for an issue of priority
\* "high", while the table gives 3 for "High"
C33_Witness ==
    /\ pc \in {"create", "cutover"}
    /\ lastCalls # <<>>
    /\ lastCalls[1].api = "fd.create_ticket"
    /\ lastCalls[1].outcome = "ok"
    /\ lastCalls[1].target \in DOMAIN jira
    /\ jira[lastCalls[1].target].priority = "high"
    /\ JIRA_PRIORITY_TO_FRESHDESK[CanonicalName("high")] = 3
    /\ fd[Len(fd)].tag = lastCalls[1].target
    /\ fd[Len(fd)].priority = 1

\* ------------------------------------------------------------------
\* C34  Comment sync disabled.  With comment sync off, no step of the two
\* propagation passes makes a note call, a comment call or a conversation
\* read, adds a comment to an issue or a conversation entry to a helpdesk
\* ticket, or changes the comment number of an entry.  For a ticket that
\* passed the gate the rest still happens: the source->target step pushes
\* the priority the table has for the issue, the target->source step asks
\* for the candidate transitions of the ticket's status, and, unless a call
\* meets a network error, the step sets the ticket's watermark to the
\* current time.
InPropagation == pc \in {"j2f", "f2j"} /\ <<pc, idx>>' # <<pc, idx>>

C34_CommentSyncDisabled ==
    [][ ~config.SYNC_COMMENTS
        => /\ InPropagation
              => /\ CallsOf(lastCalls', "fd.add_note") = <<>>
                 /\ CallsOf(lastCalls', "jira.add_comment") = <<>>
                 /\ CallsOf(lastCalls', "fd.conversations") = <<>>
                 /\ \A k \in DOMAIN jira : jira'[k].comments = jira[k].comments
                 /\ \A f \in DOMAIN fd : fd'[f].conversations = fd[f].conversations
                 /\ DOMAIN mapping' = DOMAIN mapping
                 /\ \A k \in DOMAIN mapping :
                       mapping'[k].last_jira_comment_id = mapping[k].last_jira_comment_id
           /\ J2FPasses
              => LET t == jira_tickets[idx]
                     pushes == CallsOf(lastCalls', "fd.update_ticket_fields")
                 IN  /\ lastCalls' = pushes
                     /\ Len(pushes) = IF t.priority \in DOMAIN JIRA_PRIORITY_TO_FRESHDESK
                                      THEN 1 ELSE 0
                     /\ ~Raised(lastCalls') => mapping'[t.key].last_jira_update = now
           /\ F2JPasses
              => LET t == freshdesk_tickets[idx]
                     key == CHOOSE k \in ClaimingKeys(t.id) : TRUE
                     asked == CallsOf(lastCalls', "jira.get_transitions")
                 IN  /\ t.status \in DOMAIN DEFAULT_FRESHDESK_TO_JIRA_TRANSITION_MAP
                           => /\ asked # <<>>
                              /\ asked[1].text
                                    = <<DEFAULT_FRESHDESK_TO_JIRA_TRANSITION_MAP[t.status][1]>>
                     /\ \A i \in DOMAIN lastCalls' :
                           lastCalls'[i].api \in {"jira.get_transitions", "jira.transition"}
                     /\ ~Raised(lastCalls') => mapping'[key].last_freshdesk_update = now
      ]_vars

\* with comment sync off, a step of the source->target pass has pushed the
\* priority of an issue that carries a user's comment newer than the stored
\* comment number: no note was written, the number is still 0 and the
\* watermark is the current time
C34_Witness ==
    /\ ~config.SYNC_COMMENTS
    /\ pc = "j2f"
    /\ idx > 1
    /\ idx - 1 \in DOMAIN jira_tickets
    /\ LET t == jira_tickets[idx - 1]
       IN  /\ t.key \in DOMAIN mapping
           /\ Len(lastCalls) = 1
           /\ lastCalls[1].api = "fd.update_ticket_fields"
           /\ lastCalls[1].outcome = "ok"
           /\ Selected(t, mapping[t.key].last_jira_comment_id) # {}
           /\ mapping[t.key].last_jira_comment_id = 0
           /\ mapping[t.key].last_jira_update = now
           /\ fd[mapping[t.key].freshdesk_id].conversations = <<>>
           /\ fd[mapping[t.key].freshdesk_id].priority = lastCalls[1].code

\* with comment sync off, a step of the target->source pass has asked for a
\* transition of an issue whose helpdesk ticket carries an agent's untagged
\* reply, and has posted no comment
C34_TargetSide ==
    /\ ~config.SYNC_COMMENTS
    /\ pc = "f2j"
    /\ idx > 1
    /\ idx - 1 \in DOMAIN freshdesk_tickets
    /\ lastCalls # <<>>
    /\ lastCalls[1].api = "jira.get_transitions"
    /\ \E k \in DOMAIN mapping :
          /\ mapping[k].freshdesk_id = freshdesk_tickets[idx - 1].id
          /\ mapping[k].last_freshdesk_update = now
          /\ NewerUntagged(mapping[k].freshdesk_id, mappingFile[k].last_freshdesk_update) # <<>>

\* ------------------------------------------------------------------
\* C35  Cutover does not starve mapped tickets.  With matching disabled and
\* a cutoff recorded, a run whose search of the tracker is served fetches
\* every issue that has a mapping entry, was created before the cutoff, and
\* was modified after its source watermark (and within the days the run
\* looks back), so that the source->target pass works on it.
\* (Statement as claimed; the one search of the run carries the created
\* filter, so such an issue is not fetched.)
C35_CutoverDoesNotStarve ==
    [][ (/\ pc = "idle"
         /\ runs' = runs + 1
         /\ ~configFile.ENABLE_SMART_MAPPING
         /\ configFile.FIRST_RUN_TIMESTAMP # NoTime
         /\ lastCalls' # <<>>
         /\ lastCalls'[1].api = "jira.search"
         /\ lastCalls'[1].outcome = "ok"
         /\ runStatus' # "aborted")
        => \A k \in DOMAIN mappingFile \cap DOMAIN jira :
              (/\ jira[k].created < configFile.FIRST_RUN_TIMESTAMP
               /\ jira[k].updated > mappingFile[k].last_jira_update
               /\ jira[k].updated >= SinceDate(now, SYNC_DAYS_AGO))
                 => \E i \in DOMAIN jira_tickets' : jira_tickets'[i].key = k
      ]_vars

\* the deployment in service is a state of the engine: a first run with
\* matching enabled has linked the issue by title and persisted the entry
C35_LinkedStateReached ==
    /\ pc = "idle"
    /\ now = 0
    /\ jira = <<LinkedIssue>>
    /\ nextCommentId = 2
    /\ mappingFile = SetEntry(<<>>, 1, NewEntry(1))
    /\ configFile.FIRST_RUN_TIMESTAMP = NoTime
    /\ configFile.SYNC_COMMENTS


\* --------------------------------------------------------------- C36
WriteApis ==
    {"fd.update_ticket_fields", "fd.add_note", "fd.create_ticket", "jira.add_comment",
     "jira.transition"}

WritesNothing == \A i \in DOMAIN lastCalls : lastCalls[i].api \notin WriteApis

\* C36: once no user changes a ticket any more, and with every write of the
\* engine stamping the ticket with the time of the write, there is a point
\* after which no step of any run issues a write call (a field update, a
\* note, a creation, a comment or a transition).
C36_Quiescence == <>[]WritesNothing

\* C36: when the priority name of the issue is not in the table, so that the
\* source->target pass has nothing to push, the runs do fall silent.
C36_QuietWithoutPush ==
    (jira[1].priority \notin DOMAIN JIRA_PRIORITY_TO_FRESHDESK) => <>[]WritesNothing

\* C36: the deployment the quiet period starts from (an issue the engine
\* created a ticket for, a user's comment one tick later, and a run that
\* delivered it) is one the runs of the client reach.
C36_QuietStateReached ==
    /\ pc = "idle"
    /\ now = 1
    /\ runStatus = "ok"
    /\ \E shape \in JiraShapes :
          /\ shape.priority \in DOMAIN JIRA_PRIORITY_TO_FRESHDESK
          /\ jira = <<QuietIssue(shape)>>
          /\ configFile = [ENABLE_SMART_MAPPING |-> TRUE, SYNC_COMMENTS |-> TRUE,
                           FIRST_RUN_TIMESTAMP |-> NoTime]
          /\ fd = QuietPass(shape, configFile).fd
          /\ mappingFile =
                SetEntry(<<>>, 1,
                         [QuietEntry EXCEPT
                             !.last_jira_update = 1,
                             !.last_jira_comment_id =
                                 MaxNoteId(QuietPass(shape, configFile).calls, 0)])
    /\ nextCommentId = 3
    /\ mapping = mappingFile
    /\ config = configFile
    /\ lastCalls = <<>>


\* --------------------------------------------------------------- C37
\* the comments of issue k a user wrote without the tag
UntaggedUserComments(k) ==
    SelectSeq(jira[k].comments,
              LAMBDA c : c.author = "user" /\ ~Contains(extract_text_from_adf(c.body), TAG))

\* the notes of ticket f that carry a user's comment
NotesOf(f) ==
    SelectSeq(fd[f].conversations,
              LAMBDA n : \E text \in UserTexts :
                            n.body_text = J2FNote([author |-> "user", body |-> CommentDoc(text)]))

\* a user wrote an untagged comment on the mapped issue 1 after the run in
\* flight fetched the issue and before its source->target pass
WrittenDuringRun ==
    /\ pc = "j2f"
    /\ idx = 1
    /\ 1 \in DOMAIN mapping
    /\ \E i \in DOMAIN jira_tickets :
          /\ jira_tickets[i].key = 1
          /\ Len(UntaggedUserComments(1)) >
                Len(SelectSeq(jira_tickets[i].comments,
                              LAMBDA c : /\ c.author = "user"
                                         /\ ~Contains(extract_text_from_adf(c.body), TAG)))

\* C37: with comment sync enabled, every call served and runs that go on to
\* their end again and again, an untagged comment a user writes on a mapped
\* issue between a run's fetch and that run's source->target pass is posted
\* as a note to the mapped ticket by that run or a later one.
C37_NoLostComment ==
    ([]<><<StartRun>>_vars /\ []<>(pc = "idle")) =>
        (WrittenDuringRun ~> (Len(NotesOf(1)) >= Len(UntaggedUserComments(1))))

\* C37: under the same premise the comment the fetch did see is posted.
C37_FetchedCommentPosted ==
    ([]<><<StartRun>>_vars /\ []<>(pc = "idle")) => <>(Len(NotesOf(1)) >= 1)

\* C37: the end of a run whose pass posted the comment it had fetched and
\* set the source watermark to the current time, while the comment written
\* after the fetch has no note: later runs find the issue at its watermark.
C37_LeftBehind ==
    /\ pc = "idle"
    /\ runStatus = "ok"
    /\ Len(UntaggedUserComments(1)) = 2
    /\ Len(NotesOf(1)) = 1
    /\ jira[1].updated <= mappingFile[1].last_jira_update
    /\ mappingFile[1].last_jira_comment_id = 1
    /\ jira[1].status = "Backlog"

\* C37: the deployment the comment is written in (an issue linked by title,
\* then a user's first comment one tick later) is one the runs of the client
\* reach.
C37_BusyStateReached ==
    /\ pc = "idle"
    /\ now = 1
    /\ jira = <<BusyIssue>>
    /\ fd \in FdInits \ {<<>>}
    /\ configFile = [ENABLE_SMART_MAPPING |-> TRUE, SYNC_COMMENTS |-> TRUE,
                     FIRST_RUN_TIMESTAMP |-> NoTime]
    /\ mappingFile = SetEntry(<<>>, 1, QuietEntry)
    /\ mapping = mappingFile
    /\ config = configFile
    /\ faults = MaxFaults
    /\ lastCalls = <<>>


\* --------------------------------------------------------------- C38
\* the notes the engine wrote to the helpdesk, by ticket and position
EngineNotes ==
    UNION {{<<f, i>> : i \in {j \in DOMAIN fd[f].conversations :
                                 fd[f].conversations[j].user = "bot"}} : f \in DOMAIN fd}

\* the comments users wrote without the tag, by issue and position
SourceComments ==
    UNION {{<<k, i>> : i \in {j \in DOMAIN jira[k].comments :
                                 /\ jira[k].comments[j].author = "user"
                                 /\ ~Contains(extract_text_from_adf(jira[k].comments[j].body),
                                              TAG)}} : k \in DOMAIN jira}

\* the comments the engine wrote to the tracker for a conversation entry
EngineRelays ==
    UNION {{<<k, i>> : i \in {j \in DOMAIN jira[k].comments :
                                 /\ jira[k].comments[j].author = "bot"
                                 /\ Contains(extract_text_from_adf(jira[k].comments[j].body),
                                             " do Freshdesk por ")}} : k \in DOMAIN jira}

\* the entries agents wrote without the tag, by ticket and position
TargetEntries ==
    UNION {{<<f, i>> : i \in {j \in DOMAIN fd[f].conversations :
                                 /\ fd[f].conversations[j].user = "agent"
                                 /\ ~Contains(fd[f].conversations[j].body_text, TAG)}} :
           f \in DOMAIN fd}

\* C38: over the runs of one client, aborted ones included, every comment of
\* the tracker is posted as a note at most once and every conversation entry
\* of the helpdesk is posted as a comment at most once; so the helpdesk never
\* holds more notes of the engine than users wrote untagged comments, and
\* the tracker never holds more relayed comments than agents wrote untagged
\* entries.
C38_AtMostOnce ==
    /\ Cardinality(EngineNotes) <= Cardinality(SourceComments)
    /\ Cardinality(EngineRelays) <= Cardinality(TargetEntries)

\* C38: the same for a conversation entry alone: a second relayed comment
\* for the one entry an agent wrote.
C38_EntryRelayedTwice ==
    /\ Cardinality(TargetEntries) = 1
    /\ Cardinality(EngineRelays) = 2


\* --------------------------------------------------------------- C39
\* a note for the comment is among the entries of the linked ticket
NotePosted(k, c) ==
    LET f == mappingFile[k].freshdesk_id
    IN  f \in DOMAIN fd /\ \E i \in DOMAIN fd[f].conversations :
           /\ fd[f].conversations[i].user = "bot"
           /\ fd[f].conversations[i].body_text = J2FNote(c)

\* the comments without the tag that the stored counter has passed and that
\* have no note
SkippedComments(k) ==
    {i \in DOMAIN jira[k].comments :
        /\ ~Contains(extract_text_from_adf(jira[k].comments[i].body), TAG)
        /\ ~NotePosted(k, jira[k].comments[i])
        /\ mappingFile[k].last_jira_comment_id >= jira[k].comments[i].id}

\* C39: no comment is skipped for good: as long as every call has been
\* served, the comment counter stored for an issue is below the id of every
\* comment of the issue that has no bot tag and no note, also when the
\* processing of one comment failed inside the loop and a later comment of
\* the same pass was posted.
C39_NoCommentSkipped ==
    faults = 0 =>
        \A k \in DOMAIN mappingFile : k \in DOMAIN jira => SkippedComments(k) = {}

\* C39: the same without the failure inside the loop: where every comment
\* has its author's name, the stored counter passes no comment that has no
\* note.
C39_NoCommentSkippedSilently ==
    \A k \in DOMAIN mappingFile : k \in DOMAIN jira => SkippedComments(k) = {}

\* C39: two runs have ended normally, every call served, and the comment
\* that failed in the first run still has no note.
C39_StillSkipped ==
    /\ pc = "idle"
    /\ runs = 2
    /\ runStatus = "ok"
    /\ faults = 0
    /\ 1 \in DOMAIN mappingFile
    /\ 1 \in SkippedComments(1)
    /\ NotePosted(1, jira[1].comments[2])

====
